---- MODULE Spec2Model ----
(***************************************************************************)
(* A model of the chemlink-analytics-db ETL scripts: the extract           *)
(* orchestrator (scripts/run_extracts.py), the staging loaders and the     *)
(* extract jobs (scripts/extract.py, extract_neo4j.py,                     *)
(* extract_glossary.py) and the statement sequences of the transform and   *)
(* aggregate commands (scripts/transform.py, scripts/aggregate.py).        *)
(*                                                                         *)
(* Three specifications share the variables:                               *)
(*   SpecOrch  the orchestrator and its child processes,                   *)
(*   SpecLoad  one call of a staging loader on a table of n rows,          *)
(*   Spec      one run of a command (core extract, graph extract,          *)
(*             glossary extract, transform, aggregate).                    *)
(***************************************************************************)
EXTENDS Integers, Sequences, FiniteSets, TLC

VARIABLES
    \* ---- run_extracts.py
    args_only,      \* args.only: the --only selectors in order (<<>> is None)
    args_all,       \* args.all
    orch_pc,        \* "idle" | "start" | "run" | "done"
    targets,        \* the job names to run, in order
    next_job,       \* index into targets of the next job to start
    ran,            \* history: <<name, returncode>> of every child process run
    failures,       \* the dict failures: name -> exit code
    orch_ret        \* main()'s return value, NoCode until it returns

VARIABLES
    \* ---- the analytics warehouse and the staging loaders
    staging,        \* staging table name -> its rows, in insertion order
    ld,             \* the activation record of load_to_staging / load_glossary
    loaded,         \* history: table -> the rows this run inserted and committed
    truncated,      \* history: the tables whose TRUNCATE this run committed
    errors,         \* stats['errors']: the error records, here their step names
    raised,         \* the exception propagating out of the step, or "none"
    faults          \* number of statement failures that may still be injected

VARIABLES
    \* ---- one run of a command (the main() of a script)
    cmd,              \* "core", "neo4j", "glossary", "transform", "aggregate"; "load": harness
    main_pc,          \* "connect" | "steps" | "done" ("harness" under SpecLoad)
    pos,              \* [src, k]: the source being extracted and the next table or statement
    exit_code,        \* the process exit status, NoCode while running
    conn_failed,      \* history: connecting to the warehouse failed
    open_conns,       \* the store connections that are open
    upstream,         \* source table -> its rows (set when the source is connected)
    valid_person_ids, \* source -> the tuple valid_person_ids built for it (<<>>: none)
    extracted         \* history: table -> the rows its read query returned in this run

VARIABLES
    \* ---- transform.py and aggregate.py: the schema gate and the statements run
    gate,           \* what the gate found: [ran, catalog, missing]
    attempted       \* history: the indices of the statements of Program(cmd) executed

VARIABLES
    \* ---- db_config.py: the environment
    missing_creds   \* the stores whose database, user or password is not set

VARIABLES
    \* ---- successive runs of a command on the same warehouse
    run,            \* the number of this run of the command, from 1
    snapshot,       \* history: the staging tables as the previous run left them
    extraction_log  \* meta.neo4j_extraction_log: the status of each logged run

VARIABLES
    \* ---- transform.py: the activity events
    activity_staging,     \* the rows of the five staging tables the events come from
    unified_users,        \* core.unified_users: [chemlink_id, engagement_person_id]
    user_activity_events, \* core.user_activity_events, in insertion order
    events_pc             \* 0: before the TRUNCATE; k: the k-th event type is next

VARIABLES
    \* ---- transform.py and aggregate.py: the tables the statements derive
    analytics,      \* the derived tables of the warehouse, by name: sets of rows
    sql_pc,         \* the handler of the run that is next, "idle" outside such a run
    current_date    \* CURRENT_DATE of the run, a day number

orchVars == <<args_only, args_all, orch_pc, targets, next_job, ran, failures, orch_ret>>

loadVars == <<staging, ld, loaded, truncated, errors, raised, faults>>

runVars == <<cmd, main_pc, pos, exit_code, conn_failed, open_conns, upstream,
             valid_person_ids, extracted>>

envVars == <<missing_creds>>

rerunVars == <<run, snapshot>>

stmtVars == <<gate, attempted>>

eventVars == <<activity_staging, unified_users, user_activity_events, events_pc>>

sqlVars == <<analytics, sql_pc, current_date>>

moreVars == <<stmtVars, envVars, rerunVars, extraction_log, eventVars, sqlVars>>

vars == <<orchVars, loadVars, runVars, moreVars>>

\* ---------------------------------------------------------------- bounds
MaxOnly == 3        \* at most this many --only selectors on the command line
MaxRunFaults == 1   \* at most this many injected statement failures in one run of a command
MaxLoadFaults == 2  \* at most this many injected statement failures in one loader call
MaxPersons == 3     \* the persons of a source
MaxRows == 1200     \* the loader harness loads at most this many rows
RowStep == 100
MaxMissing == 1     \* tables missing from the catalog
MaxRuns == 2        \* successive runs of a command
MaxEvents == 2      \* rows in the staging tables the activity events come from
MaxEventPersons == 2
MaxEventTime == 2   \* created_at values      \* ... with row counts at, just below and just above its multiples

\* ---------------------------------------------------------------- helpers
NoCode == -1

Min(a, b) == IF a < b THEN a ELSE b

Range(s) == {s[i] : i \in 1..Len(s)}

SeqsUpTo(S, n) == UNION {[1..k -> S] : k \in 0..n}

\* A dict is a function on the set of its keys.
EmptyDict == [k \in {} |-> 0]

DictPut(d, k, v) == [x \in DOMAIN d \cup {k} |-> IF x = k THEN v ELSE d[x]]

\* ================================================================
\* run_extracts.py
\* ================================================================
\* The keys of EXTRACT_SCRIPTS in insertion order.
EXTRACT_SCRIPTS == <<"core", "neo4j", "glossary">>

\* The exit statuses a child extract process ends with.
ExitCodes == {0, 1, 2, 130}

\* if args.only and args.all: return 2
UsageErrorMissed(only, all) == only = <<>> /\ all
UsageError(only, all) == only # <<>> /\ all

\* targets = args.only if args.only else list(EXTRACT_SCRIPTS.keys())
SelectTargetsFixedOrder(only) ==
    SelectSeq(EXTRACT_SCRIPTS, LAMBDA n : only = <<>> \/ n \in Range(only))
SelectTargets(only) == IF only # <<>> THEN only ELSE EXTRACT_SCRIPTS

\* missing = [name for name in targets if name not in EXTRACT_SCRIPTS]
MissingNames(tgts) == SelectSeq(tgts, LAMBDA n : n \notin Range(EXTRACT_SCRIPTS))

\* if exit_code != 0: failures[name] = exit_code
RecordFailureKeepFirst(f, name, code) ==
    IF code # 0 /\ name \notin DOMAIN f THEN DictPut(f, name, code) ELSE f
RecordFailure(f, name, code) == IF code # 0 THEN DictPut(f, name, code) ELSE f

\* return 1 if failures else 0
CombinedStatus(f) == IF DOMAIN f # {} THEN 1 ELSE 0

\* main(), up to the first child process.
OrchMain ==
    /\ orch_pc = "start"
    /\ IF UsageError(args_only, args_all)
         THEN /\ orch_ret' = 2
              /\ orch_pc' = "done"
              /\ UNCHANGED targets
         ELSE LET tgts == SelectTargets(args_only) IN
              /\ targets' = tgts
              /\ IF MissingNames(tgts) # <<>>
                   THEN orch_ret' = 2 /\ orch_pc' = "done"
                   ELSE orch_ret' = NoCode /\ orch_pc' = "run"
    /\ UNCHANGED <<args_only, args_all, next_job, ran, failures>>
    /\ UNCHANGED <<loadVars, runVars, moreVars>>

\* One iteration of the loop over targets: run_script(name, path), then the
\* bookkeeping of its exit code.
OrchRunScript ==
    /\ orch_pc = "run"
    /\ next_job <= Len(targets)
    /\ \E code \in ExitCodes :
         /\ ran' = Append(ran, <<targets[next_job], code>>)
         /\ failures' = RecordFailure(failures, targets[next_job], code)
    /\ next_job' = next_job + 1
    /\ UNCHANGED <<args_only, args_all, orch_pc, targets, orch_ret>>
    /\ UNCHANGED <<loadVars, runVars, moreVars>>

\* After the loop: the combined status.
OrchReturn ==
    /\ orch_pc = "run"
    /\ next_job > Len(targets)
    /\ orch_ret' = CombinedStatus(failures)
    /\ orch_pc' = "done"
    /\ UNCHANGED <<args_only, args_all, targets, next_job, ran, failures>>
    /\ UNCHANGED <<loadVars, runVars, moreVars>>

OrchInit ==
    /\ args_only \in SeqsUpTo(Range(EXTRACT_SCRIPTS), MaxOnly)
    /\ args_all \in BOOLEAN
    /\ orch_pc = "start"
    /\ targets = <<>>
    /\ next_job = 1
    /\ ran = <<>>
    /\ failures = EmptyDict
    /\ orch_ret = NoCode

OrchIdle ==
    /\ args_only = <<>>
    /\ args_all = FALSE
    /\ orch_pc = "idle"
    /\ targets = <<>>
    /\ next_job = 1
    /\ ran = <<>>
    /\ failures = EmptyDict
    /\ orch_ret = NoCode

\* ================================================================
\* Rows and tables
\* ================================================================
\* A row: its primary key, the id of the person owning it (a person row owns
\* itself), the soft-delete mark (deleted_at IS NOT NULL) and the persons.profile
\* column: "null", "json" (a JSON value as the driver returns it) or "text"
\* (the string json.dumps makes of it).
Row(i, o, d, p) == [id |-> i, owner |-> o, deleted |-> d, profile |-> p]

PlainRow(i) == Row(i, i, FALSE, "null")

\* n rows with ids 1..n, in order.
Rows(n) == [i \in 1..n |-> PlainRow(i)]

\* A row an earlier run loaded, owned by a person the source no longer has.
StaleRows == <<Row(0, 0, FALSE, "null")>>

ChemlinkDependents == <<"chemlink_experiences", "chemlink_education", "chemlink_collections",
                        "chemlink_query_votes", "chemlink_view_access">>

EngagementDependents == <<"engagement_posts", "engagement_comments", "engagement_groups",
                          "engagement_group_members", "engagement_mentions">>

\* The tables extract_chemlink_data and extract_engagement_data load, in order.
ChemlinkTables == <<"chemlink_persons">> \o ChemlinkDependents \o <<"chemlink_glossary">>

EngagementTables == <<"engagement_persons">> \o EngagementDependents

\* The tables extract_neo4j.py loads, in the order main() calls the extractors.
Neo4jTables == <<"neo4j_persons", "neo4j_companies", "neo4j_roles", "neo4j_schools",
                 "neo4j_degrees", "neo4j_locations", "neo4j_projects", "neo4j_languages",
                 "neo4j_experiences", "neo4j_educations", "neo4j_relationships">>

\* The table of the loader harness (SpecLoad).
HarnessTable == "staging_table"

StagingTables ==
    Range(ChemlinkTables) \cup Range(EngagementTables) \cup Range(Neo4jTables)
        \cup {HarnessTable}

\* ================================================================
\* The staging loaders: extract.py load_to_staging, extract_neo4j.py
\* load_to_staging, extract_glossary.py load_glossary
\* ================================================================
LoaderKinds == {"core", "neo4j", "glossary"}

\* batch_size = 500 if len(rows) > 1000 else 200        (extract.py)
\* batch_size = 1000                                    (extract_neo4j.py)
\* batch_size = 500                                     (extract_glossary.py)
BatchSizeSmallerWhenLarge(kind, n) ==
    CASE kind = "core" -> IF n > 1000 THEN 200 ELSE 500
      [] kind = "neo4j" -> 1000
      [] kind = "glossary" -> 500
BatchSize(kind, n) ==
    CASE kind = "core" -> IF n > 1000 THEN 500 ELSE 200
      [] kind = "neo4j" -> 1000
      [] kind = "glossary" -> 500

\* num_batches = (len(rows) + batch_size - 1) // batch_size
NumBatches(n, b) == (n + b - 1) \div b

\* batch = rows[i:i + batch_size]
BatchDropsLastRow(rows, i, b) == SubSeq(rows, i + 1, Min(i + b, Len(rows)) - 1)
Batch(rows, i, b) == SubSeq(rows, i + 1, Min(i + b, Len(rows)))

\* What a loader does when its TRUNCATE fails: extract.py records the error and
\* goes on ("warn"); extract_neo4j.py has the truncate in the try block of the
\* inserts, records the error and returns 0 ("abort"); extract_glossary.py
\* raises RuntimeError ("raise").
TruncateFailurePolicyAllAbort(kind) == "abort"
TruncateFailurePolicy(kind) ==
    CASE kind = "core" -> "warn"
      [] kind = "neo4j" -> "abort"
      [] kind = "glossary" -> "raise"

\* What a loader does when a batch fails, after the rollback: extract.py and
\* extract_neo4j.py record the error and return 0; extract_glossary.py raises.
InsertFailurePolicy(kind) == IF kind = "glossary" THEN "raise" ELSE "abort"

\* The value load_to_staging returns from its except block: return 0.
FailureReturnPartialCount(total_inserted) == total_inserted
FailureReturn(total_inserted) == 0

\* The activation record of a loader: its arguments, its locals (i,
\* total_inserted, batch_size), its return value, and the history of the call:
\* the rows the table held at entry (prior), whether the TRUNCATE failed, the
\* number of executemany calls made (tried), the lengths of the batches
\* committed, and the number of the batch that failed (0: none).
LdIdle == [pc |-> "idle", kind |-> "core", table |-> HarnessTable, rows |-> <<>>,
           i |-> 0, total_inserted |-> 0, batch_size |-> 0, ret |-> NoCode,
           prior |-> <<>>, truncate_failed |-> FALSE, tried |-> 0,
           committed |-> <<>>, failed_batch |-> 0]

\* Entry of the loader: if not rows: return 0, before anything is truncated.
LoadEnter(kind, table, rows) ==
    IF rows = <<>>
      THEN [LdIdle EXCEPT !.pc = "returned", !.kind = kind, !.table = table, !.ret = 0,
                          !.prior = staging[table]]
      ELSE [LdIdle EXCEPT !.pc = "truncate", !.kind = kind, !.table = table,
                          !.rows = rows, !.prior = staging[table]]

\* TRUNCATE TABLE ... CASCADE and its commit succeed.
\* TRUNCATE TABLE ... CASCADE, committed
TruncateKeepsRows(rows) == rows
Truncate(rows) == <<>>

LoadTruncateOk ==
    /\ ld.pc = "truncate"
    /\ staging' = [staging EXCEPT ![ld.table] = Truncate(@)]
    /\ truncated' = truncated \cup {ld.table}
    /\ ld' = [ld EXCEPT !.pc = "insert",
                        !.batch_size = BatchSize(ld.kind, Len(ld.rows))]
    /\ UNCHANGED <<loaded, errors, raised, faults>>
    /\ UNCHANGED <<orchVars, runVars, moreVars>>

\* The TRUNCATE fails; the transaction is rolled back.
LoadTruncateFails ==
    /\ ld.pc = "truncate"
    /\ faults > 0
    /\ faults' = faults - 1
    /\ LET policy == TruncateFailurePolicy(ld.kind) IN
       /\ ld' = CASE policy = "warn" ->
                       [ld EXCEPT !.pc = "insert", !.truncate_failed = TRUE,
                                  !.batch_size = BatchSize(ld.kind, Len(ld.rows))]
                  [] policy = "abort" ->
                       [ld EXCEPT !.pc = "returned", !.truncate_failed = TRUE, !.ret = 0]
                  [] policy = "raise" ->
                       [ld EXCEPT !.pc = "raised", !.truncate_failed = TRUE]
       /\ errors' = IF policy = "raise" THEN errors ELSE Append(errors, ld.table)
       /\ raised' = IF policy = "raise" THEN "Exception" ELSE raised
    /\ UNCHANGED <<staging, loaded, truncated>>
    /\ UNCHANGED <<orchVars, runVars, moreVars>>

\* One iteration of the batch loop: executemany and commit succeed. After the
\* last batch the loader returns total_inserted.
LoadBatchOk ==
    /\ ld.pc = "insert"
    /\ ld.i < Len(ld.rows)
    /\ LET batch == Batch(ld.rows, ld.i, ld.batch_size)
           total == ld.total_inserted + Len(batch)
           last  == ld.i + ld.batch_size >= Len(ld.rows)
       IN /\ staging' = [staging EXCEPT ![ld.table] = @ \o batch]
          /\ loaded' = [loaded EXCEPT ![ld.table] = @ \o batch]
          /\ ld' = [ld EXCEPT !.i = @ + ld.batch_size,
                              !.total_inserted = total,
                              !.tried = @ + 1,
                              !.committed = Append(@, Len(batch)),
                              !.pc = IF last THEN "returned" ELSE "insert",
                              !.ret = IF last THEN total ELSE NoCode]
    /\ UNCHANGED <<truncated, errors, raised, faults>>
    /\ UNCHANGED <<orchVars, runVars, moreVars>>

\* One iteration of the batch loop fails: the batch's transaction is rolled back.
LoadBatchFails ==
    /\ ld.pc = "insert"
    /\ ld.i < Len(ld.rows)
    /\ faults > 0
    /\ faults' = faults - 1
    /\ LET policy == InsertFailurePolicy(ld.kind) IN
       /\ ld' = IF policy = "raise"
                  THEN [ld EXCEPT !.pc = "raised", !.tried = @ + 1,
                                  !.failed_batch = ld.tried + 1]
                  ELSE [ld EXCEPT !.pc = "returned", !.tried = @ + 1,
                                  !.failed_batch = ld.tried + 1,
                                  !.ret = FailureReturn(ld.total_inserted)]
       /\ errors' = IF policy = "raise" THEN errors ELSE Append(errors, ld.table)
       /\ raised' = IF policy = "raise" THEN "Exception" ELSE raised
    /\ UNCHANGED <<staging, loaded, truncated>>
    /\ UNCHANGED <<orchVars, runVars, moreVars>>

\* Ctrl+C while the loader is between two statements: KeyboardInterrupt is not
\* an Exception, so no handler of the loader catches it; the open transaction is
\* never committed.
LoadInterrupt ==
    /\ ld.pc \in {"truncate", "insert"}
    /\ ld' = [ld EXCEPT !.pc = "raised"]
    /\ raised' = "KeyboardInterrupt"
    /\ UNCHANGED <<staging, loaded, truncated, errors, faults>>
    /\ UNCHANGED <<orchVars, runVars, moreVars>>

\* ================================================================
\* The source stores
\* ================================================================
Persons == 1..MaxPersons

\* The persons table of a source: persons 1..MaxPersons, those in D soft-deleted;
\* person 1 has a JSON profile.
PersonsUp(D) ==
    [p \in Persons |-> Row(p, p, p \in D, IF p = 1 THEN "json" ELSE "null")]

\* A dependent table of a source: one row of each person but the last, one row
\* whose owner is no person of the source, and one soft-deleted row of the last
\* person.
DependentUp ==
    [i \in 1..(MaxPersons + 1) |->
        IF i < MaxPersons THEN Row(i, i, FALSE, "null")
        ELSE IF i = MaxPersons THEN Row(i, MaxPersons + 1, FALSE, "null")
        ELSE Row(i, MaxPersons, TRUE, "null")]

\* The glossary table of the chemlink source, and the nodes of one label (or
\* the relationships) of the graph store.
GlossaryUp == Rows(2)

GraphUp == Rows(2)

\* The sets of soft-deleted persons a source is tried with.
DeletedChoices == {1..k : k \in 0..MaxPersons}

SourceTables(src) == IF src = "chemlink" THEN ChemlinkTables ELSE EngagementTables

IsPersonsTable(t) == t \in {"chemlink_persons", "engagement_persons"}

IsDependentTable(t) == t \in Range(ChemlinkDependents) \cup Range(EngagementDependents)

CoreTables == Range(ChemlinkTables) \cup Range(EngagementTables)

SourceContent(t, D) ==
    IF IsPersonsTable(t) THEN PersonsUp(D)
    ELSE IF IsDependentTable(t) THEN DependentUp
    ELSE GlossaryUp

\* ================================================================
\* extract.py: the read queries
\* ================================================================
\* SELECT ... FROM persons WHERE deleted_at IS NULL ORDER BY id
PersonsQuery(up) == SelectSeq(up, LAMBDA r : ~r.deleted)

\* SELECT ... WHERE deleted_at IS NULL AND person_id IN %s ORDER BY person_id, ...
DependentQueryUnfiltered(up, valid) == SelectSeq(up, LAMBDA r : ~r.deleted)
DependentQuery(up, valid) ==
    SelectSeq(up, LAMBDA r : ~r.deleted /\ r.owner \in Range(valid))

\* SELECT ... FROM glossary ORDER BY id
GlossaryQuery(up) == up

\* fixed_rows: row_list[3] = json.dumps(row_list[3]) where the profile is not None
FixProfile(rows) ==
    [i \in 1..Len(rows) |->
        IF rows[i].profile # "null" THEN [rows[i] EXCEPT !.profile = "text"] ELSE rows[i]]

\* valid_person_ids = tuple([row[0] for row in rows])
ValidPersonIds(rows) == [i \in 1..Len(rows) |-> rows[i].id]

\* ================================================================
\* main() of extract.py, transform.py, aggregate.py, extract_neo4j.py and
\* extract_glossary.py
\* ================================================================
Commands == {"core", "neo4j", "glossary", "transform", "aggregate"}

\* The commands whose main() ends with: return 1 if stats['errors'] else 0.
ReportingCommands == {"core", "transform", "aggregate"}

\* if stats['errors']: return 1 else: return 0     (extract.py, transform.py,
\* aggregate.py)
MainExitStatusIgnoresErrors(errs) == 0
MainExitStatus(errs) == IF errs # <<>> THEN 1 ELSE 0

\* extract_neo4j.py main(): return 0 at the end of the try block, whatever
\* stats['errors'] holds.
Neo4jExitStatus(errs) == 0

\* extract_glossary.py main(): return 0 at the end of the try block.
GlossaryExitStatus(errs) == 0

ExitStatus(c, errs) ==
    CASE c \in ReportingCommands -> MainExitStatus(errs)
      [] c = "neo4j" -> Neo4jExitStatus(errs)
      [] c = "glossary" -> GlossaryExitStatus(errs)

\* The status of a process that dies of an uncaught KeyboardInterrupt: 1, or
\* death by SIGINT (-2 for the parent), depending on the interpreter.
UncaughtInterruptStatus == {1, 0 - 2}

\* except KeyboardInterrupt: ... return 130. extract_glossary.py has no such
\* handler.
InterruptStatusAsFailure(c) == {1}
InterruptStatus(c) == IF c = "glossary" THEN UncaughtInterruptStatus ELSE {130}

\* The stores db_config.py connects to, each with required credentials.
CredentialStores == {"analytics", "chemlink", "engagement"}

\* The environments a command is run in: complete, or the credentials of one
\* store missing.
Environments == {{}} \cup {{st} : st \in CredentialStores}

\* The stores a command connects to through db_config.py.
StoresUsed(c) ==
    CASE c = "core" -> {"analytics", "chemlink", "engagement"}
      [] c = "glossary" -> {"chemlink", "analytics"}
      [] OTHER -> {"analytics"}

ConnectedStores(c) == IF c = "glossary" THEN {"chemlink", "analytics"} ELSE {"analytics"}

StartPos(c) ==
    CASE c = "core" -> [src |-> "chemlink", k |-> 0]
      [] c = "neo4j" -> [src |-> "graph", k |-> 1]
      [] c = "glossary" -> [src |-> "glossary", k |-> 1]
      [] OTHER -> [src |-> "stmts", k |-> 1]

EndPos == [src |-> "end", k |-> 0]

\* After table or statement k of n: the next one, or the end of the steps.
AdvanceSkipsOne(p, n) == IF p.k + 1 >= n THEN EndPos ELSE [p EXCEPT !.k = @ + 2]
Advance(p, n) == IF p.k >= n THEN EndPos ELSE [p EXCEPT !.k = @ + 1]

NextSourcePos(src) == IF src = "chemlink" THEN [src |-> "engagement", k |-> 0] ELSE EndPos

LoaderQuiet == ld.pc \in {"idle", "returned"}

StepReady(c) == cmd = c /\ main_pc = "steps" /\ raised = "none" /\ LoaderQuiet

NotExtracted == [done |-> FALSE, failed |-> FALSE, rows |-> <<>>]

Extracted(rows) == [done |-> TRUE, failed |-> FALSE, rows |-> rows]

\* The read query raised: no rows came back.
QueryFailed == [done |-> FALSE, failed |-> TRUE, rows |-> <<>>]

\* get_analytics_db_connection() (and, in extract_glossary.py, the source
\* connection before it).
MainConnect ==
    /\ main_pc = "connect"
    /\ \/ /\ ConnectedStores(cmd) \cap missing_creds = {}
          /\ open_conns' = ConnectedStores(cmd)
          /\ main_pc' = "steps"
          /\ UNCHANGED <<exit_code, conn_failed>>
       \/ /\ open_conns' \in (IF cmd # "glossary" \/ "chemlink" \in missing_creds THEN {{}}
                              ELSE IF "analytics" \in missing_creds THEN {{"chemlink"}}
                              ELSE {{}, {"chemlink"}})
          /\ conn_failed' = TRUE
          /\ exit_code' = 1
          /\ main_pc' = "done"
    /\ UNCHANGED <<cmd, pos, upstream, valid_person_ids, extracted>>
    /\ UNCHANGED <<orchVars, loadVars, moreVars>>

\* extract_chemlink_data / extract_engagement_data: source_conn = get_..._connection()
OpenSource ==
    /\ StepReady("core")
    /\ pos.src \in {"chemlink", "engagement"}
    /\ pos.k = 0
    /\ \/ /\ pos.src \notin missing_creds
          /\ \E D \in DeletedChoices :
                /\ upstream' = [t \in DOMAIN upstream |->
                                   IF t \in Range(SourceTables(pos.src))
                                     THEN SourceContent(t, D) ELSE upstream[t]]
                /\ run = 1 \/ upstream' = upstream
          /\ open_conns' = open_conns \cup {pos.src}
          /\ pos' = [pos EXCEPT !.k = 1]
          /\ UNCHANGED <<raised, faults, valid_person_ids>>
       \/ /\ faults > 0
          /\ faults' = faults - 1
          /\ raised' = "Exception"
          /\ UNCHANGED <<open_conns, pos, upstream, valid_person_ids>>
       \/ /\ pos.src \in missing_creds
          /\ raised' = "Exception"
          /\ UNCHANGED <<open_conns, pos, upstream, valid_person_ids, faults>>
    /\ UNCHANGED <<cmd, main_pc, exit_code, conn_failed, extracted>>
    /\ UNCHANGED <<staging, ld, loaded, truncated, errors>>
    /\ UNCHANGED <<orchVars, moreVars>>

\* Step 1 of a source: the persons, through extract_table; then the load and the
\* valid person ids, or "No persons found, skipping related tables".
ExtractPersons ==
    /\ StepReady("core")
    /\ pos.src \in {"chemlink", "engagement"}
    /\ pos.k = 1
    /\ LET t == SourceTables(pos.src)[1]
           rows == PersonsQuery(upstream[t])
       IN \/ /\ extracted' = [extracted EXCEPT ![t] = Extracted(rows)]
             /\ IF rows # <<>>
                  THEN /\ ld' = LoadEnter("core", t,
                                   IF pos.src = "chemlink" THEN FixProfile(rows) ELSE rows)
                       /\ valid_person_ids' =
                              [valid_person_ids EXCEPT ![pos.src] = ValidPersonIds(rows)]
                       /\ pos' = [pos EXCEPT !.k = 2]
                       /\ UNCHANGED open_conns
                  ELSE /\ open_conns' = open_conns \ {pos.src}
                       /\ pos' = NextSourcePos(pos.src)
                       /\ UNCHANGED <<ld, valid_person_ids>>
             /\ UNCHANGED faults
          \/ /\ faults > 0
             /\ faults' = faults - 1
             /\ open_conns' = open_conns \ {pos.src}
             /\ pos' = NextSourcePos(pos.src)
             /\ extracted' = [extracted EXCEPT ![t] = QueryFailed]
             /\ UNCHANGED <<ld, valid_person_ids>>
    /\ UNCHANGED <<cmd, main_pc, exit_code, conn_failed, upstream>>
    /\ UNCHANGED <<staging, loaded, truncated, errors, raised>>
    /\ UNCHANGED <<orchVars, moreVars>>

\* Steps 2.. of a source: a dependent table, read with the cursor directly (no
\* try block), loaded if any row came back.
ExtractDependent ==
    /\ StepReady("core")
    /\ pos.src \in {"chemlink", "engagement"}
    /\ pos.k >= 2
    /\ pos.k <= Len(SourceTables(pos.src))
    /\ IsDependentTable(SourceTables(pos.src)[pos.k])
    /\ LET t == SourceTables(pos.src)[pos.k]
           rows == DependentQuery(upstream[t], valid_person_ids[pos.src])
       IN \/ /\ extracted' = [extracted EXCEPT ![t] = Extracted(rows)]
             /\ ld' = IF rows # <<>> THEN LoadEnter("core", t, rows) ELSE LdIdle
             /\ pos' = [pos EXCEPT !.k = @ + 1]
             /\ UNCHANGED <<raised, faults>>
          \/ /\ faults > 0
             /\ faults' = faults - 1
             /\ raised' = "Exception"
             /\ extracted' = [extracted EXCEPT ![t] = QueryFailed]
             /\ UNCHANGED <<ld, pos>>
    /\ UNCHANGED <<cmd, main_pc, exit_code, conn_failed, open_conns, upstream,
                   valid_person_ids>>
    /\ UNCHANGED <<staging, loaded, truncated, errors>>
    /\ UNCHANGED <<orchVars, moreVars>>

\* Step 7 of extract_chemlink_data: the glossary, through extract_table.
ExtractGlossary ==
    /\ StepReady("core")
    /\ pos.src = "chemlink"
    /\ pos.k = Len(ChemlinkTables)
    /\ LET t == ChemlinkTables[pos.k]
           rows == GlossaryQuery(upstream[t])
       IN \/ /\ extracted' = [extracted EXCEPT ![t] = Extracted(rows)]
             /\ ld' = IF rows # <<>> THEN LoadEnter("core", t, rows) ELSE LdIdle
             /\ UNCHANGED faults
          \/ /\ faults > 0
             /\ faults' = faults - 1
             /\ ld' = LdIdle
             /\ extracted' = [extracted EXCEPT ![t] = QueryFailed]
    /\ pos' = [pos EXCEPT !.k = @ + 1]
    /\ UNCHANGED <<cmd, main_pc, exit_code, conn_failed, open_conns, upstream,
                   valid_person_ids>>
    /\ UNCHANGED <<staging, loaded, truncated, errors, raised>>
    /\ UNCHANGED <<orchVars, moreVars>>

\* source_conn.close() at the end of extract_chemlink_data / extract_engagement_data
CloseSource ==
    /\ StepReady("core")
    /\ pos.src \in {"chemlink", "engagement"}
    /\ pos.k = Len(SourceTables(pos.src)) + 1
    /\ open_conns' = open_conns \ {pos.src}
    /\ pos' = NextSourcePos(pos.src)
    /\ ld' = LdIdle
    /\ UNCHANGED <<cmd, main_pc, exit_code, conn_failed, upstream, valid_person_ids,
                   extracted>>
    /\ UNCHANGED <<staging, loaded, truncated, errors, raised, faults>>
    /\ UNCHANGED <<orchVars, moreVars>>

\* extract_neo4j.py: one extract_*_nodes / extract_relationships call:
\* extract_from_neo4j (which records a failure and returns []), then the load
\* if any record came back.
ExtractGraph ==
    /\ StepReady("neo4j")
    /\ pos.src = "graph"
    /\ LET t == Neo4jTables[pos.k] IN
       \/ /\ extracted' = [extracted EXCEPT ![t] = Extracted(GraphUp)]
          /\ ld' = IF GraphUp # <<>> THEN LoadEnter("neo4j", t, GraphUp) ELSE LdIdle
          /\ UNCHANGED <<errors, faults>>
       \/ /\ faults > 0
          /\ faults' = faults - 1
          /\ errors' = Append(errors, t)
          /\ ld' = LdIdle
          /\ extracted' = [extracted EXCEPT ![t] = QueryFailed]
    /\ pos' = Advance(pos, Len(Neo4jTables))
    /\ UNCHANGED <<cmd, main_pc, exit_code, conn_failed, open_conns, upstream,
                   valid_person_ids>>
    /\ UNCHANGED <<staging, loaded, truncated, raised>>
    /\ UNCHANGED <<orchVars, moreVars>>

\* extract_glossary.py: fetch_glossary_records, then load_glossary.
FetchGlossary ==
    /\ StepReady("glossary")
    /\ pos.src = "glossary"
    /\ \/ /\ \E rows \in {<<>>, GlossaryUp} :
                /\ run = 1 \/ rows = upstream["chemlink_glossary"]
                /\ upstream' = [upstream EXCEPT !["chemlink_glossary"] = rows]
                /\ extracted' = [extracted EXCEPT !["chemlink_glossary"] = Extracted(rows)]
                /\ ld' = LoadEnter("glossary", "chemlink_glossary", rows)
          /\ pos' = EndPos
          /\ UNCHANGED <<raised, faults>>
       \/ /\ faults > 0
          /\ faults' = faults - 1
          /\ raised' = "Exception"
          /\ extracted' = [extracted EXCEPT !["chemlink_glossary"] = QueryFailed]
          /\ UNCHANGED <<ld, pos, upstream>>
    /\ UNCHANGED <<cmd, main_pc, exit_code, conn_failed, open_conns,
                   valid_person_ids>>
    /\ UNCHANGED <<staging, loaded, truncated, errors>>
    /\ UNCHANGED <<orchVars, moreVars>>

\* ================================================================
\* transform.py and aggregate.py: the statements main() runs, in order
\* ================================================================
\* A statement is run directly on a cursor outside any try block ("raw": the
\* TRUNCATEs that clear a table), through execute_transform / execute_aggregate
\* or in a try block of its own ("wrapped"), or is the schema gate ("gate",
\* which on a missing table skips to statement skip_to).
Raw(step) == [kind |-> "raw", step |-> step, skip_to |-> 0]

Wrapped(step) == [kind |-> "wrapped", step |-> step, skip_to |-> 0]

Gate(step, to) == [kind |-> "gate", step |-> step, skip_to |-> to]

\* transform_unified_users, transform_glossary_terms,
\* transform_user_activity_events, transform_user_cohorts, transform_neo4j_data
TransformProgram ==
    << Raw("core.unified_users"), Wrapped("core.unified_users"),
       Raw("core.glossary_terms"), Wrapped("core.glossary_terms"),
       Raw("core.user_activity_events"),
       Wrapped("post events"), Wrapped("comment events"), Wrapped("vote events"),
       Wrapped("collection events"), Wrapped("view events"),
       Raw("core.user_cohorts"), Wrapped("core.user_cohorts"),
       Gate("neo4j tables", 21),
       Raw("graph tables"),
       Wrapped("user relationships (worked together)"),
       Wrapped("user relationships (studied together)"),
       Wrapped("company networks"), Wrapped("education networks"),
       Wrapped("location networks"), Wrapped("project collaborations") >>

\* aggregate_daily_metrics .. aggregate_funnel_metrics, check_tables_exist, the
\* seven graph aggregates, refresh_materialized_views
AggregateProgram ==
    << Raw("aggregates.daily_metrics"), Wrapped("aggregates.daily_metrics"),
       Raw("aggregates.monthly_metrics"), Wrapped("aggregates.monthly_metrics"),
       Raw("aggregates.cohort_retention"), Wrapped("aggregates.cohort_retention"),
       Raw("aggregates.post_metrics"), Wrapped("aggregates.post_metrics"),
       Raw("aggregates.finder_metrics"), Wrapped("aggregates.finder_metrics"),
       Raw("aggregates.collection_metrics"), Wrapped("aggregates.collection_metrics"),
       Raw("aggregates.profile_metrics"), Wrapped("aggregates.profile_metrics"),
       Raw("aggregates.funnel_metrics"), Wrapped("aggregates.funnel_metrics"),
       Gate("neo4j tables", 32),
       Raw("aggregates.connection_recommendations"),
       Wrapped("aggregates.connection_recommendations"),
       Raw("aggregates.company_network_map"), Wrapped("aggregates.company_network_map"),
       Raw("aggregates.skills_matching_scores"),
       Wrapped("aggregates.skills_matching_scores"),
       Raw("aggregates.career_path_patterns"), Wrapped("aggregates.career_path_patterns"),
       Raw("aggregates.location_based_networks"),
       Wrapped("aggregates.location_based_networks"),
       Raw("aggregates.alumni_networks"), Wrapped("aggregates.alumni_networks"),
       Raw("aggregates.project_collaboration_graph"),
       Wrapped("aggregates.project_collaboration_graph"),
       Wrapped("materialized views") >>

Program(c) == IF c = "transform" THEN TransformProgram ELSE AggregateProgram

\* required_tables of transform_neo4j_data
TransformRequired ==
    << "core.user_relationships", "core.career_paths", "core.education_networks",
       "core.company_networks", "core.location_networks", "core.project_collaborations",
       "staging.neo4j_relationships", "staging.neo4j_persons", "staging.neo4j_companies",
       "staging.neo4j_roles", "staging.neo4j_schools", "staging.neo4j_degrees",
       "staging.neo4j_locations", "staging.neo4j_projects", "staging.neo4j_languages",
       "staging.neo4j_experiences", "staging.neo4j_educations" >>

\* neo4j_required_tables of aggregate.py main()
AggregateRequired ==
    << "core.user_relationships", "core.company_networks", "core.career_paths",
       "core.education_networks", "core.location_networks", "core.project_collaborations",
       "aggregates.connection_recommendations", "aggregates.company_network_map",
       "aggregates.skills_matching_scores", "aggregates.career_path_patterns",
       "aggregates.location_based_networks", "aggregates.alumni_networks",
       "aggregates.project_collaboration_graph" >>

RequiredTables(c) == IF c = "transform" THEN TransformRequired ELSE AggregateRequired

\* The tables of the Neo4j integration schema, and the catalogs the gate is
\* tried with: all of them but at most MaxMissing.
SchemaTables == Range(TransformRequired) \cup Range(AggregateRequired)

Catalogs ==
    {SchemaTables \ m : m \in {x \in SUBSET SchemaTables : Cardinality(x) <= MaxMissing}}

\* check_tables_exist: the required tables the catalog does not hold, in order.
CheckTablesExistFirstOnly(catalog, tables) ==
    IF tables[1] \in catalog THEN <<>> ELSE <<tables[1]>>
CheckTablesExist(catalog, tables) == SelectSeq(tables, LAMBDA t : t \notin catalog)

NoGate == [ran |-> FALSE, catalog |-> {}, missing |-> <<>>]

StatementReady(kind) ==
    /\ cmd \in {"transform", "aggregate"}
    /\ StepReady(cmd)
    /\ pos.src = "stmts"
    /\ Program(cmd)[pos.k].kind = kind

\* A statement outside any try block: its exception leaves the step.
RunRawStatement ==
    /\ StatementReady("raw")
    /\ \/ /\ pos' = Advance(pos, Len(Program(cmd)))
          /\ UNCHANGED <<raised, faults>>
       \/ /\ faults > 0
          /\ faults' = faults - 1
          /\ raised' = "Exception"
          /\ UNCHANGED pos
    /\ attempted' = attempted \cup {pos.k}
    /\ UNCHANGED <<cmd, main_pc, exit_code, conn_failed, open_conns, upstream,
                   valid_person_ids, extracted>>
    /\ UNCHANGED <<staging, ld, loaded, truncated, errors>>
    /\ UNCHANGED <<orchVars, gate, envVars, rerunVars, extraction_log, eventVars, sqlVars>>

\* execute_transform / execute_aggregate / refresh_materialized_views: a failure
\* is rolled back, recorded in stats['errors'], and 0 is returned.
RunWrappedStatement ==
    /\ StatementReady("wrapped")
    /\ \/ UNCHANGED <<errors, faults>>
       \/ /\ faults > 0
          /\ faults' = faults - 1
          /\ errors' = Append(errors, Program(cmd)[pos.k].step)
    /\ pos' = Advance(pos, Len(Program(cmd)))
    /\ attempted' = attempted \cup {pos.k}
    /\ UNCHANGED <<cmd, main_pc, exit_code, conn_failed, open_conns, upstream,
                   valid_person_ids, extracted>>
    /\ UNCHANGED <<staging, ld, loaded, truncated, raised>>
    /\ UNCHANGED <<orchVars, gate, envVars, rerunVars, extraction_log, eventVars, sqlVars>>

\* The schema gate: the catalog queries, then the stage or the skip.
RunSchemaGate ==
    /\ StatementReady("gate")
    /\ \/ /\ \E catalog \in Catalogs :
                LET missing == CheckTablesExist(catalog, RequiredTables(cmd)) IN
                /\ gate' = [ran |-> TRUE, catalog |-> catalog, missing |-> missing]
                /\ pos' = IF missing # <<>>
                            THEN (IF Program(cmd)[pos.k].skip_to > Len(Program(cmd))
                                    THEN EndPos
                                    ELSE [pos EXCEPT !.k = Program(cmd)[pos.k].skip_to])
                            ELSE Advance(pos, Len(Program(cmd)))
          /\ UNCHANGED <<raised, faults>>
       \/ /\ faults > 0
          /\ faults' = faults - 1
          /\ raised' = "Exception"
          /\ UNCHANGED <<pos, gate>>
    /\ UNCHANGED <<cmd, main_pc, exit_code, conn_failed, open_conns, upstream,
                   valid_person_ids, extracted>>
    /\ UNCHANGED <<staging, ld, loaded, truncated, errors>>
    /\ UNCHANGED <<orchVars, attempted, envVars, rerunVars, extraction_log, eventVars, sqlVars>>

\* ================================================================
\* transform.py: transform_user_activity_events
\* ================================================================
\* The event types in the order their INSERTs run, each with its staging table
\* and the source database of that table.
ActivityTypes ==
    << [type |-> "post", table |-> "engagement_posts", db |-> "engagement"],
       [type |-> "comment", table |-> "engagement_comments", db |-> "engagement"],
       [type |-> "vote", table |-> "chemlink_query_votes", db |-> "chemlink"],
       [type |-> "collection", table |-> "chemlink_collections", db |-> "chemlink"],
       [type |-> "view", table |-> "chemlink_view_access", db |-> "chemlink"] >>

\* A staging row an event comes from: its table, its person (person_id or
\* voter_id) and created_at. The extract loads no soft-deleted row.
ActivityRow(k, p, at) ==
    [table |-> ActivityTypes[k].table, person |-> p, created_at |-> at, deleted |-> FALSE]

ActivityRowIndex(k, p, at) ==
    ((k - 1) * MaxEventPersons + (p - 1)) * MaxEventTime + (at - 1)

\* The contents the staging tables are tried with: up to MaxEvents rows, rows
\* with equal person and created_at included.
ActivityStagings ==
    LET cells == (1..Len(ActivityTypes)) \X (1..MaxEventPersons) \X (1..MaxEventTime)
        sorted(q) == \A i \in 1..(Len(q) - 1) :
                        ActivityRowIndex(q[i][1], q[i][2], q[i][3])
                          <= ActivityRowIndex(q[i + 1][1], q[i + 1][2], q[i + 1][3])
    IN { [i \in 1..Len(q) |-> ActivityRow(q[i][1], q[i][2], q[i][3])] :
            q \in {x \in SeqsUpTo(cells, MaxEvents) : sorted(x)} }

\* core.unified_users as the events are built: person p of either source is
\* user p, for the persons 1..n.
UnifiedUsers(n) == {[chemlink_id |-> p, engagement_person_id |-> p] : p \in 1..n}

\* SELECT MIN(x2.created_at) FROM <table> x2 WHERE x2.person_id = x.person_id
MinCreatedAt(rows, table, person) ==
    LET ats == {r.created_at : r \in {x \in Range(rows) : x.table = table /\ x.person = person}}
    IN CHOOSE m \in ats : \A a \in ats : m <= a

\* x.created_at = (SELECT MIN(...)) AS is_first_activity_of_type
IsFirstActivityOfType(rows, r) == r.created_at = MinCreatedAt(rows, r.table, r.person)

\* The users a staging row joins to: through staging.engagement_persons and
\* engagement_person_id for posts and comments, through chemlink_id otherwise.
UsersOf(users, ty, r) ==
    {u \in users : (IF ty.db = "engagement" THEN u.engagement_person_id ELSE u.chemlink_id) = r.person}

\* The SELECT of one event type: one event for every row of its table that is
\* not soft-deleted and joins to a unified user.
RECURSIVE EventsOfRows(_, _, _, _)
EventsOfRows(rows, users, ty, i) ==
    IF i > Len(rows) THEN <<>>
    ELSE LET r == rows[i]
             us == IF r.table = ty.table /\ ~r.deleted THEN UsersOf(users, ty, r) ELSE {}
             ev == IF us = {} THEN <<>>
                   ELSE << [user_id |-> (CHOOSE u \in us : TRUE).chemlink_id,
                            activity_type |-> ty.type,
                            activity_date |-> r.created_at,
                            is_first_activity_of_type |-> IsFirstActivityOfType(rows, r)] >>
         IN ev \o EventsOfRows(rows, users, ty, i + 1)

ActivityEvents(rows, users, ty) == EventsOfRows(rows, users, ty, 1)

\* An event an earlier run left in core.user_activity_events.
StaleEvents ==
    << [user_id |-> 0, activity_type |-> "post", activity_date |-> 0,
        is_first_activity_of_type |-> TRUE] >>

SqlIdle ==
    /\ analytics = <<>>
    /\ sql_pc = "idle"
    /\ current_date = 0

EventsIdle ==
    /\ activity_staging = <<>>
    /\ unified_users = {}
    /\ user_activity_events = <<>>
    /\ events_pc = 0

\* TRUNCATE TABLE core.user_activity_events CASCADE; commit
ClearActivityEvents ==
    /\ cmd = "events"
    /\ events_pc = 0
    /\ user_activity_events' = <<>>
    /\ events_pc' = 1
    /\ UNCHANGED <<activity_staging, unified_users>>
    /\ UNCHANGED <<orchVars, loadVars, runVars, stmtVars, envVars, rerunVars, extraction_log, sqlVars>>

\* execute_transform of the INSERT of one event type: the events are added, or
\* the statement fails, is rolled back and recorded.
InsertActivityEvents ==
    /\ cmd = "events"
    /\ events_pc \in 1..Len(ActivityTypes)
    /\ LET ty == ActivityTypes[events_pc] IN
       \/ /\ user_activity_events' =
                user_activity_events \o ActivityEvents(activity_staging, unified_users, ty)
          /\ UNCHANGED <<errors, faults>>
       \/ /\ faults > 0
          /\ faults' = faults - 1
          /\ errors' = Append(errors, ty.type \o " events")
          /\ UNCHANGED user_activity_events
    /\ events_pc' = events_pc + 1
    /\ UNCHANGED <<activity_staging, unified_users>>
    /\ UNCHANGED <<staging, ld, loaded, truncated, raised>>
    /\ UNCHANGED <<orchVars, runVars, stmtVars, envVars, rerunVars, extraction_log, sqlVars>>

\* ================================================================
\* main(): the end of the try block and its handlers
\* ================================================================
\* Ctrl+C while a step is between two statements of its own.
StepInterrupt ==
    /\ main_pc = "steps"
    /\ raised = "none"
    /\ LoaderQuiet
    /\ pos.src # "end"
    /\ raised' = "KeyboardInterrupt"
    /\ UNCHANGED <<staging, ld, loaded, truncated, errors, faults>>
    /\ UNCHANGED <<orchVars, runVars, moreVars>>

\* extract_neo4j.py log_extraction: one row of meta.neo4j_extraction_log for
\* the run; the other commands keep no such log.
LogExtraction(log, c, status) == IF c = "neo4j" THEN Append(log, status) ELSE log

\* The steps are over: the connections are closed, the summary printed and the
\* exit status determined.
MainFinish ==
    /\ main_pc = "steps"
    /\ raised = "none"
    /\ LoaderQuiet
    /\ pos.src = "end"
    /\ open_conns' = open_conns \ ConnectedStores(cmd)
    /\ exit_code' = ExitStatus(cmd, errors)
    /\ extraction_log' = LogExtraction(extraction_log, cmd, "success")
    /\ main_pc' = "done"
    /\ UNCHANGED <<cmd, pos, conn_failed, upstream, valid_person_ids, extracted>>
    /\ UNCHANGED <<orchVars, loadVars, stmtVars, envVars, rerunVars, eventVars, sqlVars>>

\* except KeyboardInterrupt: close the warehouse connection, return 130.
MainKeyboardInterrupt ==
    /\ main_pc = "steps"
    /\ raised = "KeyboardInterrupt"
    /\ open_conns' = open_conns \ ConnectedStores(cmd)
    /\ exit_code' \in InterruptStatus(cmd)
    /\ extraction_log' = LogExtraction(extraction_log, cmd, "cancelled")
    /\ main_pc' = "done"
    /\ UNCHANGED <<cmd, pos, conn_failed, upstream, valid_person_ids, extracted>>
    /\ UNCHANGED <<orchVars, loadVars, stmtVars, envVars, rerunVars, eventVars, sqlVars>>

\* except Exception: extract.py, transform.py and aggregate.py record an
\* 'Unexpected error'; every command closes the warehouse connection and
\* returns 1.
MainException ==
    /\ main_pc = "steps"
    /\ raised = "Exception"
    /\ errors' = IF cmd \in ReportingCommands
                   THEN Append(errors, "Unexpected error") ELSE errors
    /\ open_conns' = open_conns \ ConnectedStores(cmd)
    /\ exit_code' = 1
    /\ main_pc' = "done"
    /\ UNCHANGED <<cmd, pos, conn_failed, upstream, valid_person_ids, extracted>>
    /\ extraction_log' = LogExtraction(extraction_log, cmd, "failed")
    /\ UNCHANGED <<staging, ld, loaded, truncated, raised, faults>>
    /\ UNCHANGED <<orchVars, stmtVars, envVars, rerunVars, eventVars, sqlVars>>

\* ================================================================
\* The loader harness: one call of a loader
\* ================================================================
\* The row counts the harness loads.
RowCounts == {n \in 0..MaxRows : n % RowStep \in {0, 1, RowStep - 1}}

HarnessCall ==
    /\ main_pc = "harness"
    /\ ld.pc = "idle"
    /\ ld' = LoadEnter(ld.kind, ld.table, ld.rows)
    /\ UNCHANGED <<staging, loaded, truncated, errors, raised, faults>>
    /\ UNCHANGED <<orchVars, runVars, moreVars>>

\* ================================================================
\* Specifications
\* ================================================================
LoadIdle ==
    /\ staging = [t \in StagingTables |-> <<>>]
    /\ ld = LdIdle
    /\ loaded = [t \in StagingTables |-> <<>>]
    /\ truncated = {}
    /\ errors = <<>>
    /\ raised = "none"
    /\ faults = 0

RunIdle ==
    /\ cmd = "none"
    /\ main_pc = "idle"
    /\ pos = EndPos
    /\ exit_code = NoCode
    /\ conn_failed = FALSE
    /\ open_conns = {}
    /\ upstream = [t \in CoreTables |-> <<>>]
    /\ valid_person_ids = [src \in {"chemlink", "engagement"} |-> <<>>]
    /\ extracted = [t \in StagingTables |-> NotExtracted]
    /\ gate = NoGate
    /\ attempted = {}
    /\ missing_creds = {}
    /\ run = 1
    /\ snapshot = staging
    /\ extraction_log = <<>>
    /\ EventsIdle
    /\ SqlIdle

InitOrch == OrchInit /\ LoadIdle /\ RunIdle

\* One call of a loader of any kind on n rows; the table holds rows of an
\* earlier run, or none.
InitLoad ==
    /\ OrchIdle
    /\ \E prior \in {<<>>, StaleRows} :
         staging = [t \in StagingTables |-> IF t = HarnessTable THEN prior ELSE <<>>]
    /\ \E kind \in LoaderKinds, n \in RowCounts :
         ld = [LdIdle EXCEPT !.kind = kind, !.rows = Rows(n)]
    /\ loaded = [t \in StagingTables |-> <<>>]
    /\ truncated = {}
    /\ errors = <<>>
    /\ raised = "none"
    /\ faults = MaxLoadFaults
    /\ cmd = "load"
    /\ main_pc = "harness"
    /\ pos = EndPos
    /\ exit_code = NoCode
    /\ conn_failed = FALSE
    /\ open_conns = {"analytics"}
    /\ upstream = [t \in CoreTables |-> <<>>]
    /\ valid_person_ids = [src \in {"chemlink", "engagement"} |-> <<>>]
    /\ extracted = [t \in StagingTables |-> NotExtracted]
    /\ gate = NoGate
    /\ attempted = {}
    /\ missing_creds = {}
    /\ run = 1
    /\ snapshot = staging
    /\ extraction_log = <<>>
    /\ EventsIdle
    /\ SqlIdle

NextLoad ==
    \/ HarnessCall
    \/ LoadTruncateOk
    \/ LoadTruncateFails
    \/ LoadBatchOk
    \/ LoadBatchFails
    \/ LoadInterrupt

SpecLoad == InitLoad /\ [][NextLoad]_vars

\* One run of a command; every staging table holds rows of an earlier run, or
\* none.
Init ==
    /\ OrchIdle
    /\ \E prior \in {<<>>, StaleRows} : staging = [t \in StagingTables |-> prior]
    /\ ld = LdIdle
    /\ loaded = [t \in StagingTables |-> <<>>]
    /\ truncated = {}
    /\ errors = <<>>
    /\ raised = "none"
    /\ faults = MaxRunFaults
    /\ cmd \in Commands
    /\ main_pc = "connect"
    /\ pos = StartPos(cmd)
    /\ exit_code = NoCode
    /\ conn_failed = FALSE
    /\ open_conns = {}
    /\ upstream = [t \in CoreTables |-> <<>>]
    /\ valid_person_ids = [src \in {"chemlink", "engagement"} |-> <<>>]
    /\ extracted = [t \in StagingTables |-> NotExtracted]
    /\ gate = NoGate
    /\ attempted = {}
    /\ missing_creds \in Environments
    /\ run = 1
    /\ snapshot = staging
    /\ extraction_log = <<>>
    /\ EventsIdle
    /\ SqlIdle

Next ==
    \/ MainConnect
    \/ OpenSource
    \/ ExtractPersons
    \/ ExtractDependent
    \/ ExtractGlossary
    \/ CloseSource
    \/ ExtractGraph
    \/ FetchGlossary
    \/ RunRawStatement
    \/ RunWrappedStatement
    \/ RunSchemaGate
    \/ LoadTruncateOk
    \/ LoadTruncateFails
    \/ LoadBatchOk
    \/ LoadBatchFails
    \/ LoadInterrupt
    \/ StepInterrupt
    \/ MainFinish
    \/ MainKeyboardInterrupt
    \/ MainException

Spec == Init /\ [][Next]_vars


\* The extract commands, which fill the staging tables.
ExtractCommands == {"core", "neo4j", "glossary"}

\* The command is started again, as a new process, on the warehouse and the
\* sources as a run in which nothing failed has left them.
Rerun ==
    /\ cmd \in ExtractCommands
    /\ main_pc = "done"
    /\ run < MaxRuns
    /\ raised = "none"
    /\ ~conn_failed
    /\ errors = <<>>
    /\ faults = MaxRunFaults
    /\ run' = run + 1
    /\ snapshot' = staging
    /\ main_pc' = "connect"
    /\ pos' = StartPos(cmd)
    /\ exit_code' = NoCode
    /\ open_conns' = {}
    /\ ld' = LdIdle
    /\ loaded' = [t \in StagingTables |-> <<>>]
    /\ truncated' = {}
    /\ valid_person_ids' = [src \in {"chemlink", "engagement"} |-> <<>>]
    /\ extracted' = [t \in StagingTables |-> NotExtracted]
    /\ UNCHANGED <<staging, errors, raised, faults, cmd, conn_failed, upstream>>
    /\ UNCHANGED <<orchVars, stmtVars, envVars, extraction_log, eventVars, sqlVars>>

NextTwice ==
    \/ Next
    \/ Rerun

SpecTwice == Init /\ [][NextTwice]_vars

\* transform_user_activity_events on staging tables and unified users as the
\* extract and transform_unified_users left them.
InitEvents ==
    /\ OrchIdle
    /\ staging = [t \in StagingTables |-> <<>>]
    /\ ld = LdIdle
    /\ loaded = [t \in StagingTables |-> <<>>]
    /\ truncated = {}
    /\ errors = <<>>
    /\ raised = "none"
    /\ faults = MaxRunFaults
    /\ cmd = "events"
    /\ main_pc = "steps"
    /\ pos = EndPos
    /\ exit_code = NoCode
    /\ conn_failed = FALSE
    /\ open_conns = {"analytics"}
    /\ upstream = [t \in CoreTables |-> <<>>]
    /\ valid_person_ids = [src \in {"chemlink", "engagement"} |-> <<>>]
    /\ extracted = [t \in StagingTables |-> NotExtracted]
    /\ gate = NoGate
    /\ attempted = {}
    /\ missing_creds = {}
    /\ run = 1
    /\ snapshot = staging
    /\ extraction_log = <<>>
    /\ SqlIdle
    /\ activity_staging \in ActivityStagings
    /\ unified_users \in {UnifiedUsers(n) : n \in 0..MaxEventPersons}
    /\ user_activity_events \in {<<>>, StaleEvents}
    /\ events_pc = 0

NextEvents ==
    \/ ClearActivityEvents
    \/ InsertActivityEvents

SpecEvents == InitEvents /\ [][NextEvents]_vars

NextOrch ==
    \/ OrchMain
    \/ OrchRunScript
    \/ OrchReturn

SpecOrch == InitOrch /\ [][NextOrch]_vars

\* ================================================================
\* Claims about the orchestrator
\* ================================================================
RanNames == [i \in 1..Len(ran) |-> ran[i][1]]

FailingRuns == {i \in 1..Len(ran) : ran[i][2] # 0}

\* The last run of job name n that exited non-zero.
LastFailingRun(n) ==
    CHOOSE i \in FailingRuns :
        /\ ran[i][1] = n
        /\ \A j \in FailingRuns : ran[j][1] = n => j <= i

\* C1 (as amended): when the orchestrator has run its jobs, every selected job
\* was run, in order, whatever the earlier exit codes were; the combined status
\* is non-zero exactly when some child exited non-zero; the failure list holds
\* exactly the names of the failing jobs, each once, with the exit code of its
\* last failing run.
C1_FailuresByName ==
    (orch_pc = "done" /\ orch_ret # 2) =>
        /\ RanNames = targets
        /\ (orch_ret # 0) <=> (FailingRuns # {})
        /\ orch_ret \in {0, 1}
        /\ DOMAIN failures = {ran[i][1] : i \in FailingRuns}
        /\ \A n \in DOMAIN failures : failures[n] = ran[LastFailingRun(n)][2]

\* C1 witness: a job exited 130, a later job was still run and failed with
\* another code, and both are in the failure list.
C1_Witness ==
    /\ orch_pc = "done"
    /\ Len(ran) = 3
    /\ ran[1][2] = 130
    /\ ran[2][2] = 0
    /\ ran[3][2] = 1
    /\ ran[1][1] # ran[3][1]
    /\ orch_ret = 1
    /\ Cardinality(DOMAIN failures) = 2

\* C1 as stated: every failing run is in the failure list with its own code.
C1_EveryFailingRunListed ==
    (orch_pc = "done" /\ orch_ret # 2) =>
        /\ RanNames = targets
        /\ (orch_ret # 0) <=> (FailingRuns # {})
        /\ DOMAIN failures = {ran[i][1] : i \in FailingRuns}
        /\ \A i \in FailingRuns : failures[ran[i][1]] = ran[i][2]

\* C2: with --all and at least one --only selector the orchestrator returns 2
\* and no extract job is started, at any point of the run.
C2_UsageErrorRunsNothing ==
    (args_all /\ args_only # <<>> /\ orch_pc # "start") =>
        /\ orch_pc = "done"
        /\ orch_ret = 2
        /\ ran = <<>>

\* C2 witness: the orchestrator has returned on --all with two selectors.
C2_Witness ==
    /\ args_all
    /\ Len(args_only) = 2
    /\ orch_pc = "done"
    /\ orch_ret = 2

\* ================================================================
\* Claims about the exit status of the commands
\* ================================================================
IsPrefix(s, t) == Len(s) <= Len(t) /\ SubSeq(t, 1, Len(s)) = s

\* C3: extract, transform and aggregate end with 130 if a KeyboardInterrupt was
\* raised during the steps, otherwise with 1 if the warehouse connection failed
\* or an error record was appended, otherwise with 0; and the error list only
\* ever grows by appending.
C3_ExitStatus ==
    /\ []((cmd \in ReportingCommands /\ main_pc = "done") =>
            exit_code = IF raised = "KeyboardInterrupt" THEN 130
                        ELSE IF conn_failed \/ errors # <<>> THEN 1
                        ELSE 0)
    /\ [][IsPrefix(errors, errors')]_vars

\* C3 witness: a transform run that recorded an error in a sub-step, was not
\* interrupted, ran to the end and exited 1.
C3_Witness ==
    /\ cmd = "transform"
    /\ main_pc = "done"
    /\ raised = "none"
    /\ ~conn_failed
    /\ errors = <<"vote events">>
    /\ exit_code = 1

\* C4 as stated: the graph extract job exits 1 whenever it recorded an error,
\* and 0 only when it recorded none.
C4_GraphJobExitsOneOnError ==
    (cmd = "neo4j" /\ main_pc = "done" /\ raised = "none" /\ ~conn_failed) =>
        /\ (errors # <<>> => exit_code = 1)
        /\ (exit_code = 0 => errors = <<>>)

\* ================================================================
\* Claims about the staging loaders
\* ================================================================
CoreLoad == cmd = "load" /\ ld.kind = "core"

\* The first m rows of the load.
FirstRows(m) == SubSeq(ld.rows, 1, Min(m, Len(ld.rows)))

\* What the claims of C5 share: after batch k failed, the rows of batches
\* 1..k-1 are committed and still in the table, batch k left nothing, no later
\* batch was tried, and one error record was added for the failed insert.
InsertFailureEffect ==
    /\ ld.tried = ld.failed_batch
    /\ Len(ld.committed) = ld.failed_batch - 1
    /\ loaded[ld.table] = FirstRows((ld.failed_batch - 1) * ld.batch_size)
    /\ staging[ld.table] =
         (IF ld.truncate_failed THEN ld.prior ELSE <<>>) \o loaded[ld.table]
    /\ Len(errors) = (IF ld.truncate_failed THEN 2 ELSE 1)
    /\ errors[Len(errors)] = ld.table

\* C5 (as amended): when inserting batch k fails in load_to_staging of
\* extract.py, only that batch is rolled back, no later batch is attempted, one
\* error is recorded, and the loader returns 0, not the count of the rows
\* committed in batches 1..k-1 (which stay in the table).
C5_InsertFailureReturnsZero ==
    (CoreLoad /\ ld.failed_batch > 0) =>
        /\ ld.pc = "returned"
        /\ InsertFailureEffect
        /\ ld.ret = 0

\* C5 witness: batch 3 of a load of 1200 rows failed after 1000 rows were
\* committed.
C5_Witness ==
    /\ CoreLoad
    /\ Len(ld.rows) = 1200
    /\ ld.failed_batch = 3
    /\ Len(staging[ld.table]) = 1000
    /\ ld.pc = "returned"
    /\ ld.ret = 0

\* C5 as stated: the loader returns the partial count of the rows committed in
\* batches 1..k-1.
C5_InsertFailureReturnsPartialCount ==
    (CoreLoad /\ ld.failed_batch > 0) =>
        /\ ld.pc = "returned"
        /\ InsertFailureEffect
        /\ ld.ret = (ld.failed_batch - 1) * ld.batch_size

\* ceil(n / b)
CeilDiv(n, b) == IF n % b = 0 THEN n \div b ELSE (n \div b) + 1

\* C6: once the TRUNCATE of a load of n rows is committed, the batches are
\* committed one by one in input order, batch j holding rows (j-1)*b+1..j*b (the
\* last one the rest); after k committed batches the table holds exactly the
\* first min(k*b, n) rows, wherever the load stops; a load that completes has
\* committed ceil(n/b) batches.
C6_BatchesArePrefixes ==
    (CoreLoad /\ ld.table \in truncated) =>
        LET n == Len(ld.rows)
            b == ld.batch_size
            k == Len(ld.committed)
        IN /\ staging[ld.table] = FirstRows(k * b)
           /\ Len(staging[ld.table]) = Min(k * b, n)
           /\ \A j \in 1..k : ld.committed[j] = Min(b, n - (j - 1) * b)
           /\ k <= CeilDiv(n, b)
           /\ (ld.pc = "returned" /\ ld.failed_batch = 0) =>
                 (k = CeilDiv(n, b) /\ ld.ret = n)

\* C6 witness: a load of 1200 rows in batches of 500 interrupted after batch 2:
\* exactly the first 1000 rows are in the table.
C6_Witness ==
    /\ CoreLoad
    /\ ld.table \in truncated
    /\ ld.prior = StaleRows
    /\ Len(ld.rows) = 1200
    /\ ld.batch_size = 500
    /\ ld.committed = <<500, 500>>
    /\ raised = "KeyboardInterrupt"
    /\ staging[ld.table] = Rows(1000)

\* C7 (as amended): the batch size chosen for a large row count is not smaller
\* but larger than the one chosen for a small row count: for any two loads with
\* n1 > n2, batch_size(n1) >= batch_size(n2), and the two differ across the
\* threshold of 1000 rows.
C7_LargerBatchesWhenLarge ==
    (CoreLoad /\ ld.batch_size > 0) =>
        /\ \A n2 \in 1..Len(ld.rows) : ld.batch_size >= BatchSize("core", n2)
        /\ Len(ld.rows) > 1000 => ld.batch_size > BatchSize("core", 1000)

\* C7 witness: a load of more than 1000 rows has got its batch size.
C7_Witness ==
    /\ CoreLoad
    /\ Len(ld.rows) = 1001
    /\ ld.batch_size = 500

\* C7 as stated: for any two loads with n1 > n2, batch_size(n1) <= batch_size(n2).
C7_SmallerBatchesWhenLarge ==
    (CoreLoad /\ ld.batch_size > 0) =>
        \A n2 \in 1..Len(ld.rows) : ld.batch_size <= BatchSize("core", n2)

\* The rows the table held at entry are still there, before the rows of this
\* call.
PriorRowsStay == staging[ld.table] = ld.prior \o loaded[ld.table]

\* After a failed TRUNCATE the loader has gone on to the batched inserts.
WentOnToInsert ==
    \/ ld.pc = "insert"
    \/ ld.tried > 0
    \/ (ld.pc = "raised" /\ raised = "KeyboardInterrupt")

\* C8 (as amended): a failure of the TRUNCATE leaves the prior rows in the
\* table in every loader; only load_to_staging of extract.py treats it as a
\* warning, records the error and goes on to the batched inserts; the graph
\* loader records the error and returns 0 without trying any insert, and the
\* glossary loader raises without recording an error or trying any insert.
C8_TruncateFailurePerLoader ==
    (cmd = "load" /\ ld.truncate_failed) =>
        /\ PriorRowsStay
        /\ ld.kind = "core" => (errors[1] = ld.table /\ WentOnToInsert)
        /\ ld.kind = "neo4j" =>
              (errors = <<ld.table>> /\ ld.pc = "returned" /\ ld.ret = 0 /\ ld.tried = 0)
        /\ ld.kind = "glossary" =>
              (errors = <<>> /\ ld.pc = "raised" /\ raised = "Exception" /\ ld.tried = 0)

\* C8 witness: the TRUNCATE of the core loader failed on a table holding rows
\* of an earlier run, and the load then inserted all its rows after them.
C8_Witness ==
    /\ CoreLoad
    /\ ld.truncate_failed
    /\ ld.prior = StaleRows
    /\ Len(ld.rows) = 201
    /\ ld.pc = "returned"
    /\ ld.ret = 201
    /\ staging[ld.table] = StaleRows \o Rows(201)
    /\ errors = <<ld.table>>

\* C8 as stated: in every loader a failed TRUNCATE is recorded, leaves the
\* prior rows, and the loader goes on to attempt the batched inserts.
C8_TruncateFailureIsWarningEverywhere ==
    (cmd = "load" /\ ld.truncate_failed) =>
        /\ PriorRowsStay
        /\ errors # <<>>
        /\ WentOnToInsert

\* ================================================================
\* Claims about the core extract
\* ================================================================
\* What a staging table mirrors: the rows its query returned, the profile of a
\* chemlink person as json.dumps writes it.
Mirror(t) ==
    IF t = "chemlink_persons" THEN FixProfile(extracted[t].rows) ELSE extracted[t].rows

\* C9 as stated: after a core extract run that ends without error, every
\* staging table whose query ran holds exactly the rows extracted in this run
\* (none, if the extract was empty).
C9_FullRefresh ==
    (cmd = "core" /\ main_pc = "done" /\ exit_code = 0) =>
        \A t \in CoreTables : extracted[t].done => staging[t] = Mirror(t)

PersonsTableOf(src) == SourceTables(src)[1]

DependentsOf(src) == IF src = "chemlink" THEN ChemlinkDependents ELSE EngagementDependents

\* C10: once the valid person ids of a source are built, they are exactly the
\* ids of the persons of that source that are not soft-deleted, as extracted in
\* this run, and every row this run loaded into a dependent staging table of the
\* source is owned by one of them and is not soft-deleted.
C10_NoOrphans ==
    \A src \in {"chemlink", "engagement"} :
        (cmd = "core" /\ valid_person_ids[src] # <<>>) =>
            /\ Range(valid_person_ids[src]) =
                 {r.id : r \in {x \in Range(upstream[PersonsTableOf(src)]) : ~x.deleted}}
            /\ Range(valid_person_ids[src]) =
                 {r.id : r \in Range(extracted[PersonsTableOf(src)].rows)}
            /\ \A t \in Range(DependentsOf(src)) : \A r \in Range(loaded[t]) :
                 r.owner \in Range(valid_person_ids[src]) /\ ~r.deleted

\* C10 witness: the chemlink source has 3 persons, person 1 soft-deleted, and
\* an experience of person 1: the run loaded 2 persons, built 2 valid ids, and
\* loaded experiences, none of them of person 1.
C10_Witness ==
    /\ cmd = "core"
    /\ Len(upstream["chemlink_persons"]) = 3
    /\ {r.id : r \in {x \in Range(upstream["chemlink_persons"]) : x.deleted}} = {1}
    /\ \E r \in Range(upstream["chemlink_experiences"]) : r.owner = 1 /\ ~r.deleted
    /\ Len(staging["chemlink_persons"]) = 2
    /\ Len(valid_person_ids["chemlink"]) = 2
    /\ loaded["chemlink_experiences"] # <<>>
    /\ \A r \in Range(staging["chemlink_experiences"]) : r.owner # 1

\* The tables of the core extract whose read query failed in this run.
FailedQueries == {t \in CoreTables : extracted[t].failed}

\* C11 as stated: whenever a read query of the core extract fails, the failure
\* is not raised out of the extractor, an error record is added to the error
\* list, and the command does not exit with code 0.
C11_QueryFailureRecorded ==
    (cmd = "core" /\ FailedQueries # {}) =>
        /\ raised # "Exception"
        /\ errors # <<>>
        /\ main_pc = "done" => exit_code # 0

SourceOf(t) == IF t \in Range(ChemlinkTables) THEN "chemlink" ELSE "engagement"

\* The read query of table t ran in this run (and returned rows or failed).
Attempted(t) == extracted[t].done \/ extracted[t].failed

\* The tables whose extraction does not depend on the outcome of table t: those
\* that follow it in its source, and the persons of the second source.
RemainingAfter(t) ==
    LET tabs == SourceTables(SourceOf(t))
        k == CHOOSE i \in 1..Len(tabs) : tabs[i] = t
    IN {tabs[j] : j \in (k + 1)..Len(tabs)}
         \cup (IF SourceOf(t) = "chemlink" THEN {"engagement_persons"} ELSE {})

\* C12 as stated: a query failure in one dependent table of a source does not
\* stop the run: the remaining tables of that source and the second source are
\* still extracted in the same invocation.
C12_QueryFailureIsolated ==
    (cmd = "core" /\ main_pc = "done" /\ raised # "KeyboardInterrupt") =>
        \A t \in FailedQueries :
            IsDependentTable(t) => \A u \in RemainingAfter(t) : Attempted(u)

\* ================================================================
\* Claims about the schema gate and the sub-steps of transform and aggregate
\* ================================================================
GateIndex(c) == CHOOSE k \in 1..Len(Program(c)) : Program(c)[k].kind = "gate"

\* The statements of the gated stage: those between the gate and the place the
\* gate skips to.
StageStatements(c) == (GateIndex(c) + 1)..(Program(c)[GateIndex(c)].skip_to - 1)

StepNames(c, ks) == {Program(c)[k].step : k \in ks}

\* C13: the gate finds exactly the required tables that the catalog does not
\* hold. If there is one, no statement of the gated stage is executed (no
\* sub-step, no TRUNCATE), the gate adds no error record, and a run with no
\* error record ends with exit code 0. If there is none, the stage is entered,
\* and a run that no exception or interrupt ends executes every statement of it.
C13_SchemaGate ==
    (cmd \in {"transform", "aggregate"} /\ gate.ran) =>
        LET stage == StageStatements(cmd) IN
        /\ Range(gate.missing) = {t \in Range(RequiredTables(cmd)) : t \notin gate.catalog}
        /\ gate.missing # <<>> =>
              /\ attempted \cap stage = {}
              /\ raised # "Exception" => Range(errors) \subseteq StepNames(cmd, attempted)
              /\ (main_pc = "done" /\ raised = "none" /\ errors = <<>>) => exit_code = 0
        /\ gate.missing = <<>> =>
              /\ (pos.src = "stmts" /\ pos.k = GateIndex(cmd) + 1)
                    \/ (GateIndex(cmd) + 1) \in attempted
              /\ (main_pc = "done" /\ raised = "none") => stage \subseteq attempted

\* C13 witness: the aggregate command found one of its aggregate tables
\* missing, ran none of the graph aggregates, refreshed the materialized views
\* and exited 0.
C13_Witness ==
    /\ cmd = "aggregate"
    /\ gate.ran
    /\ gate.missing = <<"aggregates.alumni_networks">>
    /\ attempted = (1..Len(AggregateProgram)) \ ({GateIndex("aggregate")} \cup StageStatements("aggregate"))
    /\ errors = <<>>
    /\ main_pc = "done"
    /\ exit_code = 0

\* The graph edge list staging table.
GraphEdges == "staging.neo4j_relationships"

\* C14 as stated: when the graph edge list staging table is missing, the graph
\* transform and the graph aggregates are both skipped, and with no other error
\* both commands end with exit code 0.
C14_GateAcrossStages ==
    (cmd \in {"transform", "aggregate"} /\ gate.ran /\ GraphEdges \notin gate.catalog) =>
        /\ attempted \cap StageStatements(cmd) = {}
        /\ (main_pc = "done" /\ raised = "none" /\ errors = <<>>) => exit_code = 0

\* The statement whose exception left the step, if any.
FailedStatement == IF raised = "Exception" /\ pos.src = "stmts" THEN {pos.k} ELSE {}

\* The statements the gate made the run skip.
SkippedByGate(c) == IF gate.ran /\ gate.missing # <<>> THEN StageStatements(c) ELSE {}

\* C15 as stated: in the transform, a failure of a statement of a sub-step (its
\* TRUNCATE or its insert) is recorded, and every subsequent sub-step is still
\* attempted in the same run.
C15_SubStepIsolation ==
    (cmd = "transform" /\ main_pc = "done" /\ raised # "KeyboardInterrupt"
        /\ \A k \in FailedStatement : TransformProgram[k].kind # "gate") =>
        /\ errors # <<>> \/ faults = MaxRunFaults
        /\ \A k \in 1..Len(TransformProgram) :
              TransformProgram[k].kind = "gate" \/ k \in attempted \/ k \in SkippedByGate(cmd)
              \/ conn_failed

\* ================================================================
\* Claims about interrupts, connections and configuration
\* ================================================================
\* C16 (as amended): an interrupt is observed where it arrives, inside the step
\* in flight: once KeyboardInterrupt is raised no further statement of the step
\* runs (no further batch is inserted, no error is recorded, the step does not
\* advance), the batches already committed stay, and every command that handles
\* the interrupt ends with exit code 130. A table load can so be cut short
\* between two batches.
C16_InterruptCutsStepShort ==
    /\ []((raised = "KeyboardInterrupt" /\ main_pc = "done" /\ cmd \in Commands \ {"glossary"})
            => exit_code = 130)
    /\ [][raised = "KeyboardInterrupt" =>
            (staging' = staging /\ loaded' = loaded /\ ld' = ld /\ pos' = pos
                /\ errors' = errors /\ attempted' = attempted)]_vars

\* C16 witness: the core extract was interrupted inside the load of a table,
\* after its TRUNCATE was committed and before the batch was inserted: the
\* table, which held rows of an earlier run, is left empty, the rows extracted
\* for it were not loaded, and the command exited 130.
C16_Witness ==
    /\ cmd = "core"
    /\ raised = "KeyboardInterrupt"
    /\ ld.pc = "raised"
    /\ ld.table \in truncated
    /\ ld.prior = StaleRows
    /\ ld.rows # <<>>
    /\ ld.committed = <<>>
    /\ staging[ld.table] = <<>>
    /\ main_pc = "done"
    /\ exit_code = 130

\* C16 as stated: an interrupt is observed only when the step in flight has run
\* to its end, so no table load is cut short.
C16_InterruptOnlyAtStepBoundary ==
    (cmd \in Commands /\ raised = "KeyboardInterrupt") => ld.pc \in {"idle", "returned"}

\* C17 as stated: on every exit path of the core extract every store
\* connection that was opened has been closed before the command returns.
C17_ConnectionsReleased ==
    (cmd = "core" /\ main_pc = "done") => open_conns = {}

\* C18 as stated: if the required credentials of a store a command uses are
\* missing, the command fails before any I/O on any store (nothing is read,
\* truncated or loaded) and exits with code 2.
C18_ConfigFailureExitsTwo ==
    (cmd \in Commands /\ main_pc = "done" /\ StoresUsed(cmd) \cap missing_creds # {}) =>
        /\ exit_code = 2
        /\ truncated = {}
        /\ \A t \in StagingTables : loaded[t] = <<>> /\ ~extracted[t].done

\* ================================================================
\* Claims about successive runs
\* ================================================================
\* C19: when an extract command is run again with the source rows unchanged and
\* nothing fails in either run, the later run leaves every staging table with
\* exactly the contents the run before it left (the graph extract adds one row
\* per run to its run log, which is no staging table).
C19_FullRefreshIdempotent ==
    (cmd \in ExtractCommands /\ run >= 2 /\ main_pc = "done" /\ faults = MaxRunFaults
        /\ raised = "none" /\ ~conn_failed) =>
        /\ staging = snapshot
        /\ cmd = "neo4j" => Len(extraction_log) = run

\* C19 witness: a second core extract has truncated and reloaded the persons
\* of a source that has persons left, and ended without failure.
C19_Witness ==
    /\ cmd = "core"
    /\ run = 2
    /\ main_pc = "done"
    /\ exit_code = 0
    /\ faults = MaxRunFaults
    /\ "chemlink_persons" \in truncated
    /\ Len(loaded["chemlink_persons"]) = 2
    /\ loaded["chemlink_experiences"] # <<>>
    /\ staging["chemlink_persons"] = snapshot["chemlink_persons"]
    /\ staging["chemlink_persons"] = loaded["chemlink_persons"]

\* ================================================================
\* Claims about the activity events
\* ================================================================
\* The events of a user and an activity type in core.user_activity_events.
EventGroup(user, type) ==
    {i \in 1..Len(user_activity_events) :
        user_activity_events[i].user_id = user /\ user_activity_events[i].activity_type = type}

\* C20 as stated: for every (user, activity type) with at least one event,
\* exactly one event row has is_first_activity_of_type = true, and its
\* timestamp is the minimum of the group, also when two events of the group
\* share the minimum timestamp.
C20_ExactlyOneFirstOfType ==
    (cmd = "events" /\ events_pc >= 1) =>
        \A e \in Range(user_activity_events) :
            LET grp == EventGroup(e.user_id, e.activity_type)
                first == {i \in grp : user_activity_events[i].is_first_activity_of_type}
            IN /\ Cardinality(first) = 1
               /\ \A i \in first : \A j \in grp :
                     user_activity_events[i].activity_date <= user_activity_events[j].activity_date

\* ================================================================
\* Claims about the order of jobs and stages
\* ================================================================
\* The selection as given on the command line: the --only names in their order,
\* or the three jobs in the order core, graph, glossary.
SelectionOrder == IF args_only # <<>> THEN args_only ELSE <<"core", "neo4j", "glossary">>

\* C25: the jobs run one after another in the order of the selection: at any
\* time the jobs run so far are the first jobs of the selection, in its order,
\* and when the orchestrator returns a combined status all of them have run;
\* with no selector (with or without the 'all' flag) these are core, graph,
\* glossary in that order.
C25_JobsInSelectionOrder ==
    /\ IsPrefix(RanNames, SelectionOrder)
    /\ Len(RanNames) = next_job - 1
    /\ (orch_pc = "done" /\ orch_ret # 2) => RanNames = SelectionOrder

\* C25 witness: --only glossary --only core ran glossary, then core.
C25_Witness ==
    /\ orch_pc = "done"
    /\ args_only = <<"glossary", "core">>
    /\ RanNames = <<"glossary", "core">>

\* The statements of a command that write the named tables or events.
StatementsOf(c, names) == {k \in 1..Len(Program(c)) : Program(c)[k].step \in names}

EventSteps == {"core.user_activity_events", "post events", "comment events", "vote events",
               "collection events", "view events"}

\* Every statement of the first set that the command runs at all has run
\* before any statement of the second set runs.
RunsBefore(c, first, second) ==
    (attempted \cap StatementsOf(c, second) # {}) => StatementsOf(c, first) \subseteq attempted

\* C26: the persons of a source are extracted, and their load is over, before
\* the read query of any dependent table of that source runs; the transform
\* runs the unified-users statements before any activity-event statement and
\* all of these before the cohort statements; the aggregate runs the
\* daily-metrics statements before the monthly-metrics statements.
C26_StageOrder ==
    /\ cmd = "core" =>
          \A t \in CoreTables :
              (IsDependentTable(t) /\ Attempted(t)) =>
                  /\ Attempted(PersonsTableOf(SourceOf(t)))
                  /\ ~(ld.table = PersonsTableOf(SourceOf(t)) /\ ld.pc \in {"truncate", "insert"})
                  /\ extracted[PersonsTableOf(SourceOf(t))].done =>
                         valid_person_ids[SourceOf(t)] =
                             ValidPersonIds(extracted[PersonsTableOf(SourceOf(t))].rows)
    /\ cmd = "transform" =>
          /\ RunsBefore("transform", {"core.unified_users"}, EventSteps)
          /\ RunsBefore("transform", EventSteps, {"core.user_cohorts"})
    /\ cmd = "aggregate" =>
          RunsBefore("aggregate", {"aggregates.daily_metrics"}, {"aggregates.monthly_metrics"})

\* C26 witness: a transform has run its cohort statements, after the unified
\* users and the events.
C26_Witness ==
    /\ cmd = "transform"
    /\ StatementsOf("transform", {"core.user_cohorts"}) \subseteq attempted
    /\ StatementsOf("transform", EventSteps \cup {"core.unified_users"}) \subseteq attempted
    /\ main_pc = "done"
    /\ exit_code = 0

\* ================================================================
\* Claim about the persons a loaded dependent row refers to
\* ================================================================
\* The person ids present in the staging persons table of a source.
StagedPersonIds(src) == {r.id : r \in Range(staging[PersonsTableOf(src)])}

\* C30: when the core extract has run to its end, every row it loaded into a
\* dependent staging table refers to a person that is in the staging persons
\* table of the same source, also when the load of the persons table failed.
C30_DependentsReferenceStagedPersons ==
    (cmd = "core" /\ main_pc = "done" /\ raised = "none") =>
        \A src \in {"chemlink", "engagement"} :
            \A t \in Range(DependentsOf(src)) :
                \A r \in Range(loaded[t]) :
                    r \in Range(staging[t]) => r.owner \in StagedPersonIds(src)

\* ================================================================
\* aggregate.py: the rows of the daily, monthly, post and funnel metrics
\* ================================================================
\* Days are numbered; a month has DaysPerMonth days and the run sees Months
\* months, the last one being the month of CURRENT_DATE.
DaysPerMonth == 2
Months == 3
MaxAggUsers == 2    \* rows of core.unified_users an aggregate run reads
MaxAggEvents == 4   \* rows of core.user_activity_events an aggregate run reads

\* DATE_TRUNC('month', d), as a month number
MonthOf(d) == d \div DaysPerMonth

FirstDayOf(m) == m * DaysPerMonth

\* A column value: a number, or NULL.
Null == [null |-> TRUE, v |-> 0]

Num(x) == [null |-> FALSE, v |-> x]

\* ROUND(n::NUMERIC / d, 2), in hundredths, for n >= 0 and d > 0
RoundedRatio(n, d) == (200 * n + d) \div (2 * d)

\* ROUND((n::NUMERIC / d) * 100, 2), in hundredths of a percent
RoundedPercent(n, d) == (20000 * n + d) \div (2 * d)

\* ROUND(n::NUMERIC / NULLIF(d, 0), 2): NULL when d is 0
RatioOrNull(n, d) == IF d = 0 THEN Null ELSE Num(RoundedRatio(n, d))

\* What a statement gives: the rows it inserts, or a division by zero.
Inserted(rows) == [error |-> FALSE, rows |-> rows]

DivisionByZero == [error |-> TRUE, rows |-> {}]

\* WHERE deleted_at IS NULL AND is_test_account = FALSE
Counted(users) == {u \in users : ~u.deleted /\ ~u.is_test_account}

\* e JOIN core.unified_users u ON e.user_id = u.chemlink_id WHERE u.deleted_at
\* IS NULL AND u.is_test_account = FALSE
CountedEvents(users, events) ==
    {e \in events : \E u \in Counted(users) : u.chemlink_id = e.user_id}

OfType(events, type) == {e \in events : e.activity_type = type}

UsersIn(events) == {e.user_id : e \in events}

\* The INSERT of aggregate_daily_metrics: one row for every day from the first
\* signup of any user to CURRENT_DATE. Of its columns the model keeps those
\* the monthly roll-up reads and the two rates.
DailyMetrics(users, events, today) ==
    LET first == CHOOSE d \in {u.signup_date : u \in users} :
                     \A u \in users : d <= u.signup_date
        date_series == IF users = {} THEN {} ELSE first..today
        row(d) ==
            LET a == {e \in events : e.activity_date = d}
                cu == Cardinality({u \in Counted(users) : u.signup_date <= d})
            IN [metric_date |-> d,
                new_signups |-> Cardinality({u \in Counted(users) : u.signup_date = d}),
                total_users_cumulative |-> cu,
                dau |-> Cardinality(UsersIn(a)),
                posts_created |-> Cardinality(OfType(a, "post")),
                comments_created |-> Cardinality(OfType(a, "comment")),
                engagement_rate |->
                    IF cu > 0
                    THEN IF a = {} THEN Null
                         ELSE Num(RoundedPercent(Cardinality(UsersIn(a)), cu))
                    ELSE Num(0),
                social_engagement_rate |->
                    IF a # {}
                    THEN Num(RoundedPercent(Cardinality(UsersIn(OfType(a, "post")))
                                              + Cardinality(UsersIn(OfType(a, "comment"))),
                                            Cardinality(UsersIn(a))))
                    ELSE Num(0)]
    IN Inserted({row(d) : d \in date_series})

\* COUNT(DISTINCT e.user_id) of monthly_activity_users for month m; the month
\* has no row there, and mau is NULL, when this is 0.
Mau(users, events, m) ==
    Cardinality(UsersIn({e \in CountedEvents(users, events) : MonthOf(e.activity_date) = m}))

\* LAG(mau.mau) OVER (ORDER BY r.metric_month): mau of the row before month m,
\* 0 standing for NULL and for no row before.
LagMau(months, users, events, m) ==
    LET before == {x \in months : x < m}
    IN IF before = {} THEN 0
       ELSE Mau(users, events, CHOOSE x \in before : \A y \in before : y <= x)

\* prev_month_retention: the users with an event in the month of CURRENT_DATE
\* and an event in the month before it.
RetainedFromPrev(events, today) ==
    Cardinality({e.user_id : e \in
        {x \in events :
            /\ MonthOf(x.activity_date) = MonthOf(today)
            /\ \E e2 \in events : /\ e2.user_id = x.user_id
                                  /\ MonthOf(e2.activity_date) = MonthOf(today) - 1}})

\* retention_rate of the row of month m; prev_month_retention has a row for
\* the month of CURRENT_DATE only, and the LEFT JOIN gives NULL elsewhere.
RetentionRate(months, users, events, today, m) ==
    LET lag == LagMau(months, users, events, m)
    IN IF lag > 0
       THEN IF m = MonthOf(today) THEN Num(RoundedPercent(RetainedFromPrev(events, today), lag))
            ELSE Null
       ELSE Num(0)

\* The INSERT of aggregate_monthly_metrics: one row for every month that has
\* a row in aggregates.daily_metrics.
MonthlyMetrics(daily, users, events, today) ==
    LET months == {MonthOf(r.metric_date) : r \in daily}
        row(m) ==
            LET days == {r \in daily : MonthOf(r.metric_date) = m}
                mau == Mau(users, events, m)
                activities == Cardinality({e \in CountedEvents(users, events) :
                                              MonthOf(e.activity_date) = m})
                cohort == {u \in Counted(users) : MonthOf(u.signup_date) = m}
            IN [metric_month |-> m,
                total_users_end_of_month |->
                    CHOOSE c \in {r.total_users_cumulative : r \in days} :
                        \A r \in days : r.total_users_cumulative <= c,
                mau |-> mau,
                activation_rate |->
                    IF cohort # {}
                    THEN Num(RoundedPercent(Cardinality({u \in cohort : u.activation_status}),
                                            Cardinality(cohort)))
                    ELSE Num(0),
                avg_activities_per_user |->
                    IF mau > 0 THEN Num(RoundedRatio(activities, mau)) ELSE Num(0),
                retained_from_prev_month |->
                    IF m = MonthOf(today) THEN RetainedFromPrev(events, today) ELSE 0,
                retention_rate |-> RetentionRate(months, users, events, today, m)]
    IN Inserted({row(m) : m \in months})

\* The INSERT of aggregate_post_metrics: one row for every day with a post, a
\* comment or a vote.
PostMetrics(events) ==
    LET counted == {e \in events : e.activity_type \in {"post", "comment", "vote"}}
        row(d) ==
            LET a == {e \in counted : e.activity_date = d}
                posts == Cardinality(OfType(a, "post"))
                comments == Cardinality(OfType(a, "comment"))
            IN [metric_date |-> d,
                posts_created |-> posts,
                comments_created |-> comments,
                unique_posters |-> Cardinality(UsersIn(OfType(a, "post"))),
                avg_posts_per_poster |->
                    RatioOrNull(posts, Cardinality(UsersIn(OfType(a, "post")))),
                avg_comments_per_post |-> RatioOrNull(comments, posts),
                engagement_rate_comments_pct |->
                    IF posts = 0 THEN Null ELSE Num(RoundedPercent(comments, posts))]
    IN Inserted({row(d) : d \in {e.activity_date : e \in counted}})

\* The INSERT of aggregate_funnel_metrics: an aggregate without GROUP BY, one
\* row whatever the users are; its five rates divide by COUNT(*), and all of
\* them have the shape of the one the model keeps.
FunnelMetrics(users, today) ==
    LET total == Cardinality(Counted(users))
        activated == Cardinality({u \in Counted(users) : u.activation_status})
    IN IF total = 0 THEN DivisionByZero
       ELSE Inserted({[metric_date |-> today,
                   total_signups |-> total,
                   profiles_activated |-> activated,
                   activation_rate |-> Num(RoundedPercent(activated, total))]})

\* ================================================================
\* A run of aggregate.py or transform.py, seen through the rows of its tables
\* ================================================================
\* One handler of aggregate.py or transform.py on its table: TRUNCATE TABLE
\* ... CASCADE and commit outside any try, where an error ends the run; then
\* execute_aggregate or execute_transform of the INSERT, which commits the
\* rows or rolls back, records the error and returns. truncated collects the
\* tables whose TRUNCATE the run has committed.
RunHandlerOneTransaction(table, result, next) ==
    \/ /\ ~result.error
       /\ analytics' = [analytics EXCEPT ![table] = result.rows]
       /\ truncated' = truncated \cup {table}
       /\ sql_pc' = next
       /\ UNCHANGED <<errors, raised, faults>>
    \/ /\ faults > 0
       /\ faults' = faults - 1
       /\ errors' = Append(errors, table)
       /\ sql_pc' = next
       /\ UNCHANGED <<analytics, truncated, raised>>
    \/ /\ faults > 0
       /\ faults' = faults - 1
       /\ raised' = "Exception"
       /\ sql_pc' = "done"
       /\ UNCHANGED <<analytics, truncated, errors>>

RunHandler(table, result, next) ==
    \/ /\ ~result.error
       /\ analytics' = [analytics EXCEPT ![table] = result.rows]
       /\ truncated' = truncated \cup {table}
       /\ sql_pc' = next
       /\ UNCHANGED <<errors, raised, faults>>
    \/ /\ result.error
       /\ analytics' = [analytics EXCEPT ![table] = {}]
       /\ truncated' = truncated \cup {table}
       /\ errors' = Append(errors, table \o ": division by zero")
       /\ sql_pc' = next
       /\ UNCHANGED <<raised, faults>>
    \/ /\ faults > 0
       /\ faults' = faults - 1
       /\ analytics' = [analytics EXCEPT ![table] = {}]
       /\ truncated' = truncated \cup {table}
       /\ errors' = Append(errors, table)
       /\ sql_pc' = next
       /\ UNCHANGED raised
    \/ /\ faults > 0
       /\ faults' = faults - 1
       /\ raised' = "Exception"
       /\ sql_pc' = "done"
       /\ UNCHANGED <<analytics, truncated, errors>>

\* What a handler leaves alone.
HandlerFrame ==
    /\ UNCHANGED <<staging, ld, loaded>>
    /\ UNCHANGED <<orchVars, runVars, stmtVars, envVars, rerunVars, extraction_log>>
    /\ UNCHANGED <<activity_staging, unified_users, user_activity_events, events_pc>>
    /\ UNCHANGED current_date

\* Of the handlers main() of aggregate.py calls in turn, the four whose tables
\* are followed here: the handlers between them write other tables, and an
\* error that ends the run in one of them leaves these tables as an error in
\* the TRUNCATE of the next handler here does.
AggregateDailyMetrics ==
    /\ sql_pc = "daily_metrics"
    /\ RunHandler("daily_metrics",
                  DailyMetrics(analytics["unified_users"], analytics["user_activity_events"],
                               current_date),
                  "monthly_metrics")
    /\ HandlerFrame

AggregateMonthlyMetrics ==
    /\ sql_pc = "monthly_metrics"
    /\ RunHandler("monthly_metrics",
                  MonthlyMetrics(analytics["daily_metrics"], analytics["unified_users"],
                                 analytics["user_activity_events"], current_date),
                  "post_metrics")
    /\ HandlerFrame

AggregatePostMetrics ==
    /\ sql_pc = "post_metrics"
    /\ RunHandler("post_metrics", PostMetrics(analytics["user_activity_events"]),
                  "funnel_metrics")
    /\ HandlerFrame

AggregateFunnelMetrics ==
    /\ sql_pc = "funnel_metrics"
    /\ RunHandler("funnel_metrics", FunnelMetrics(analytics["unified_users"], current_date),
                  "done")
    /\ HandlerFrame

\* ---- the core tables an aggregate run reads
AggregateUser(i, test, activated) ==
    [chemlink_id |-> i, signup_date |-> FirstDayOf(i - 1), deleted |-> FALSE,
     is_test_account |-> test, activation_status |-> activated]

AggregateUserSets ==
    UNION { { {AggregateUser(i, f[i][1], f[i][2]) : i \in 1..n} :
                f \in [1..n -> BOOLEAN \X BOOLEAN] } : n \in 0..MaxAggUsers }

AggregateEvent(u, type, m) ==
    [user_id |-> u, activity_type |-> type, activity_date |-> FirstDayOf(m)]

\* The events of the users: each user at most one post and one comment a
\* month, at most MaxAggEvents events in all.
AggregateEventSets(users) ==
    LET cells == {AggregateEvent(u.chemlink_id, ty, m) :
                     u \in users, ty \in {"post", "comment"}, m \in 0..(Months - 1)}
    IN {x \in SUBSET cells : Cardinality(x) <= MaxAggEvents}

\* What an earlier run left in the aggregates: the metrics of the month before
\* the first month, when a user since removed had signed up. The core tables
\* are those of the transform run before this run.
EarlierUsers == {[chemlink_id |-> 0, signup_date |-> FirstDayOf(-1), deleted |-> FALSE,
                  is_test_account |-> FALSE, activation_status |-> FALSE]}

EarlierAnalytics ==
    LET daily == DailyMetrics(EarlierUsers, {}, FirstDayOf(0) - 1).rows
    IN [unified_users |-> EarlierUsers,
        user_activity_events |-> {},
        daily_metrics |-> daily,
        monthly_metrics |-> MonthlyMetrics(daily, EarlierUsers, {}, FirstDayOf(0) - 1).rows,
        post_metrics |-> {},
        funnel_metrics |-> FunnelMetrics(EarlierUsers, FirstDayOf(0) - 1).rows]

\* A run of main() of command c that has connected and is at its first step.
WarehouseRun(c) ==
    /\ OrchIdle
    /\ ld = LdIdle
    /\ loaded = [t \in StagingTables |-> <<>>]
    /\ truncated = {}
    /\ errors = <<>>
    /\ raised = "none"
    /\ faults = MaxRunFaults
    /\ cmd = c
    /\ main_pc = "steps"
    /\ pos = EndPos
    /\ exit_code = NoCode
    /\ conn_failed = FALSE
    /\ open_conns = {"analytics"}
    /\ upstream = [t \in CoreTables |-> <<>>]
    /\ valid_person_ids = [src \in {"chemlink", "engagement"} |-> <<>>]
    /\ extracted = [t \in StagingTables |-> NotExtracted]
    /\ gate = NoGate
    /\ attempted = {}
    /\ missing_creds = {}
    /\ run = 1
    /\ snapshot = staging
    /\ extraction_log = <<>>

InitAggregateData ==
    /\ staging = [t \in StagingTables |-> <<>>]
    /\ WarehouseRun("aggregate")
    /\ EventsIdle
    /\ current_date = FirstDayOf(Months) - 1
    /\ \E users \in AggregateUserSets : \E events \in AggregateEventSets(users) :
          analytics = [EarlierAnalytics EXCEPT !["unified_users"] = users,
                                               !["user_activity_events"] = events]
    /\ sql_pc = "daily_metrics"

NextAggregateData ==
    \/ AggregateDailyMetrics
    \/ AggregateMonthlyMetrics
    \/ AggregatePostMetrics
    \/ AggregateFunnelMetrics

SpecAggregateData == InitAggregateData /\ [][NextAggregateData]_vars

\* ================================================================
\* transform.py: the rows of core.unified_users, core.user_activity_events
\* and core.user_cohorts
\* ================================================================
\* Timestamps are day numbers. A text column whose length the statements look
\* at is followed by its length, NULL or a number; the other columns that can
\* be NULL hold NULL or their value.
NullText == [null |-> TRUE, v |-> ""]

Text(x) == [null |-> FALSE, v |-> x]

\* (SELECT COUNT(*) FROM staging.<table> x WHERE x.person_id = cp.id AND
\* x.deleted_at IS NULL)
CountOf(rows, person) == Cardinality({r \in rows : r.person = person /\ ~r.deleted})

\* The score with the checks of the lengths left out.
ProfileCompletionScoreAnyLength(st, cp) ==
    (IF ~cp.first_name.null THEN 10 ELSE 0)
    + (IF ~cp.last_name.null THEN 10 ELSE 0)
    + (IF ~cp.email.null THEN 10 ELSE 0)
    + (IF ~cp.headline_description.null THEN 15 ELSE 0)
    + (IF ~cp.linked_in_url.null THEN 10 ELSE 0)
    + (IF CountOf(st.chemlink_experiences, cp.id) > 0 THEN 20 ELSE 0)
    + (IF CountOf(st.chemlink_education, cp.id) > 0 THEN 15 ELSE 0)
    + (IF ~cp.location_id.null THEN 10 ELSE 0)

\* The profile completion score of chemlink person cp.
ProfileCompletionScore(st, cp) ==
    (IF ~cp.first_name.null /\ cp.first_name.v > 0 THEN 10 ELSE 0)
    + (IF ~cp.last_name.null /\ cp.last_name.v > 0 THEN 10 ELSE 0)
    + (IF ~cp.email.null THEN 10 ELSE 0)
    + (IF ~cp.headline_description.null /\ cp.headline_description.v > 10 THEN 15 ELSE 0)
    + (IF ~cp.linked_in_url.null THEN 10 ELSE 0)
    + (IF CountOf(st.chemlink_experiences, cp.id) > 0 THEN 20 ELSE 0)
    + (IF CountOf(st.chemlink_education, cp.id) > 0 THEN 15 ELSE 0)
    + (IF ~cp.location_id.null THEN 10 ELSE 0)

\* The rows of an activity table of a person: the engagement tables are read
\* by ep.id, which is NULL for a person without engagement person, the
\* chemlink tables by cp.id.
ActivityOf(rows, person) == IF person.null THEN {} ELSE {r \in rows : r.person = person.v}

\* COALESCE((SELECT MAX(x.created_at) FROM ... WHERE x.person_id = ...),
\* cp.created_at)
LastOr(rows, default) ==
    IF rows = {} THEN default
    ELSE CHOOSE d \in {r.created_at : r \in rows} : \A r \in rows : r.created_at <= d

\* GREATEST of a set of timestamps
Greatest(S) == CHOOSE d \in S : \A x \in S : x <= d

\* EXTRACT(DAY FROM (CURRENT_TIMESTAMP - t))
DaysSince(now, t) == now - t

\* user_lifecycle_stage of chemlink person cp joined to engagement person ep
UserLifecycleStage(st, cp, ep, now) ==
    LET posts == ActivityOf(st.engagement_posts, ep)
        votes == ActivityOf(st.chemlink_query_votes, Num(cp.id))
        collections == ActivityOf(st.chemlink_collections, Num(cp.id))
        last == Greatest({cp.updated_at, LastOr(posts, cp.created_at),
                          LastOr(votes, cp.created_at)})
    IN IF DaysSince(now, last) > 90 THEN "CHURNED"
       ELSE IF DaysSince(now, last) > 30 THEN "DORMANT"
       ELSE IF posts # {} \/ votes # {} \/ collections # {} THEN "ENGAGED"
       ELSE IF DaysSince(now, cp.created_at) <= 7 THEN "NEW"
       ELSE "ACTIVATED"

\* activation_status
ActivationStatus(st, cp, ep) ==
    \/ ActivityOf(st.engagement_posts, ep) # {}
    \/ ActivityOf(st.chemlink_query_votes, Num(cp.id)) # {}
    \/ ActivityOf(st.chemlink_collections, Num(cp.id)) # {}

\* last_activity_date
LastActivityDate(st, cp, ep) ==
    Greatest({cp.updated_at,
              LastOr(ActivityOf(st.engagement_posts, ep), cp.created_at),
              LastOr(ActivityOf(st.engagement_comments, ep), cp.created_at),
              LastOr(ActivityOf(st.chemlink_query_votes, Num(cp.id)), cp.created_at),
              LastOr(ActivityOf(st.chemlink_collections, Num(cp.id)), cp.created_at)})

TestAccountEmails == {"jsanchez@nmblr.ai", "jaypersanchez@gmail.com", "virlanchainworks@gmail.com"}

\* The SELECT list for one row of the join: chemlink person cp with
\* engagement person ep, identity ki and credential type kic, each NULL where
\* the LEFT JOIN found none. Of the columns the model keeps the identifiers
\* and those the events, the cohorts and the aggregates read.
UnifiedUserRow(st, cp, ep, ki, kic, now) ==
    [chemlink_id |-> cp.id,
     engagement_person_id |-> ep,
     kratos_identity_id |-> ki,
     credential_type |-> kic,
     profile_completion_score |-> ProfileCompletionScore(st, cp),
     signup_date |-> cp.created_at,
     last_activity_date |-> LastActivityDate(st, cp, ep),
     user_lifecycle_stage |-> UserLifecycleStage(st, cp, ep, now),
     activation_status |-> ActivationStatus(st, cp, ep),
     is_test_account |-> ~cp.email.null /\ cp.email.v \in TestAccountEmails,
     deleted |-> cp.deleted]

\* x LEFT JOIN y: the matches, or one NULL when there is none
OrNull(matches) == IF matches = {} THEN {Null} ELSE {Num(m) : m \in matches}

OrNullText(matches) == IF matches = {} THEN {NullText} ELSE {Text(m) : m \in matches}

\* FROM staging.chemlink_persons cp LEFT JOIN staging.engagement_persons ep
\* ... LEFT JOIN staging.kratos_identities ki ... LEFT JOIN
\* staging.kratos_identity_credentials kic ... WHERE cp.deleted_at IS NULL
JoinedUsers(st, now) ==
    UNION { UNION { UNION { { UnifiedUserRow(st, cp, ep, ki, kic, now) :
        kic \in OrNullText({c.type : c \in {x \in st.kratos_identity_credentials :
                                              ~ki.null /\ x.identity_id = ki.v}}) } :
        ki \in OrNull({k \in st.kratos_identities : ~cp.kratos_id.null /\ k = cp.kratos_id.v}) } :
        ep \in OrNull({e.id : e \in {x \in st.engagement_persons : x.external_id = cp.id}}) } :
        cp \in {x \in st.chemlink_persons : ~x.deleted} }

\* The joined rows without SELECT DISTINCT ON.
AllJoinedUsers(st, now) == {JoinedUsers(st, now)}

\* SELECT DISTINCT ON (cp.id) ... ORDER BY cp.id: one of the joined rows of
\* every cp.id, which one is not determined. The results the statement can
\* give.
UnifiedUsers_DistinctOn(st, now) ==
    LET joined == JoinedUsers(st, now)
        ids == {r.chemlink_id : r \in joined}
    IN { {pick[i] : i \in ids} :
            pick \in {f \in [ids -> joined] : \A i \in ids : f[i].chemlink_id = i} }

\* The INSERT of one activity type: one event for every row of its staging
\* table that is not soft-deleted and joins to a unified user, through
\* staging.engagement_persons and engagement_person_id for posts and comments,
\* through chemlink_id for the others.
EventsOfType(st, users, ty) ==
    LET joins(r, u) ==
            IF ty.db = "engagement"
            THEN /\ \E ep \in st.engagement_persons : ep.id = r.person
                 /\ ~u.engagement_person_id.null
                 /\ u.engagement_person_id.v = r.person
            ELSE u.chemlink_id = r.person
    IN { [user_id |-> ru[2].chemlink_id, activity_type |-> ty.type,
          activity_date |-> ru[1].created_at, source_id |-> ru[1].id] :
            ru \in {x \in st[ty.table] \X users : ~x[1].deleted /\ joins(x[1], x[2])} }

\* The INSERT of transform_user_cohorts: one row for every signup month of the
\* users that are neither soft-deleted nor test accounts.
UserCohorts(users) ==
    LET row(m) ==
            LET cohort == {u \in Counted(users) : MonthOf(u.signup_date) = m}
                retained(days) ==
                    Cardinality({u \in cohort : u.last_activity_date >= u.signup_date + days})
            IN [cohort_month |-> m,
                total_users |-> Cardinality(cohort),
                activated_users |-> Cardinality({u \in cohort : u.activation_status}),
                activation_rate |->
                    Num(RoundedPercent(Cardinality({u \in cohort : u.activation_status}),
                                       Cardinality(cohort))),
                retention_rate_30d |-> Num(RoundedPercent(retained(30), Cardinality(cohort))),
                retention_rate_60d |-> Num(RoundedPercent(retained(60), Cardinality(cohort))),
                retention_rate_90d |-> Num(RoundedPercent(retained(90), Cardinality(cohort)))]
    IN Inserted({row(m) : m \in {MonthOf(u.signup_date) : u \in Counted(users)}})

\* ---- the handlers
TransformUnifiedUsers ==
    /\ sql_pc = "unified_users"
    /\ \E rows \in UnifiedUsers_DistinctOn(staging, current_date) :
          RunHandler("unified_users", Inserted(rows), "user_activity_events")
    /\ HandlerFrame

\* transform_user_activity_events: the TRUNCATE, then one execute_transform
\* for each of the five activity types, each of which can fail by itself.
TransformUserActivityEvents ==
    /\ sql_pc = "user_activity_events"
    /\ \/ \E failed \in SUBSET {ActivityTypes[k].type : k \in 1..Len(ActivityTypes)} :
            /\ Cardinality(failed) <= faults
            /\ faults' = faults - Cardinality(failed)
            /\ analytics' =
                  [analytics EXCEPT !["user_activity_events"] =
                      UNION {EventsOfType(staging, analytics["unified_users"], ActivityTypes[k]) :
                                k \in {j \in 1..Len(ActivityTypes) :
                                          ActivityTypes[j].type \notin failed}}]
            /\ errors' = errors \o
                  SelectSeq([k \in 1..Len(ActivityTypes) |-> ActivityTypes[k].type \o " events"],
                            LAMBDA n : \E t \in failed : n = t \o " events")
            /\ truncated' = truncated \cup {"user_activity_events"}
            /\ sql_pc' = "user_cohorts"
            /\ UNCHANGED raised
       \/ /\ faults > 0
          /\ faults' = faults - 1
          /\ raised' = "Exception"
          /\ sql_pc' = "done"
          /\ UNCHANGED <<analytics, truncated, errors>>
    /\ HandlerFrame

TransformUserCohorts ==
    /\ sql_pc = "user_cohorts"
    /\ RunHandler("user_cohorts", UserCohorts(analytics["unified_users"]), "done")
    /\ HandlerFrame

\* ---- the staging tables a transform run reads
Now == 100     \* CURRENT_TIMESTAMP of the transform run, a day number

EmptyStaging ==
    [chemlink_persons |-> {}, engagement_persons |-> {}, kratos_identities |-> {},
     kratos_identity_credentials |-> {}, chemlink_experiences |-> {},
     chemlink_education |-> {}, engagement_posts |-> {}, engagement_comments |-> {},
     chemlink_query_votes |-> {}, chemlink_collections |-> {}, chemlink_view_access |-> {}]

\* A chemlink person with a name and an e-mail address and nothing else.
Person(id) ==
    [id |-> id, kratos_id |-> Null, first_name |-> Num(4), last_name |-> Num(7),
     email |-> Text("user@example.com"), headline_description |-> Null,
     linked_in_url |-> NullText, location_id |-> Null,
     created_at |-> 0, updated_at |-> 0, deleted |-> FALSE]

OwnedRow(id, person) == [id |-> id, person |-> person, deleted |-> FALSE]

StagedActivity(id, person, at) ==
    [id |-> id, person |-> person, created_at |-> at, deleted |-> FALSE]

\* One person, with every combination of what the completion score looks at.
ProfileStagings ==
    { [EmptyStaging EXCEPT
          !.chemlink_persons = {[Person(1) EXCEPT !.first_name = c[1], !.last_name = c[2],
                                                  !.email = c[3],
                                                  !.headline_description = c[4],
                                                  !.linked_in_url = c[5],
                                                  !.location_id = c[6]]},
          !.chemlink_experiences = c[7],
          !.chemlink_education = c[8]] :
        c \in {Null, Num(0), Num(4)} \X {Null, Num(7)}
              \X {NullText, Text("user@example.com"), Text("jsanchez@nmblr.ai")}
              \X {Null, Num(10), Num(11)}
              \X {NullText, Text("https://www.linkedin.com/in/user")}
              \X {Null, Num(1)}
              \X {{}, {OwnedRow(1, 1)}}
              \X {{}, {OwnedRow(1, 1)}} }

\* Two persons, with none, one or two engagement persons, identities and
\* credentials matching the first.
JoinStagings ==
    { [EmptyStaging EXCEPT
          !.chemlink_persons = {[Person(1) EXCEPT !.kratos_id = c[1]], Person(2)},
          !.engagement_persons = c[2],
          !.kratos_identities = c[3],
          !.kratos_identity_credentials = c[4]] :
        c \in {Null, Num(1)}
              \X (SUBSET {[id |-> 1, external_id |-> 1], [id |-> 2, external_id |-> 1],
                          [id |-> 3, external_id |-> 2]})
              \X {{}, {1}}
              \X (SUBSET {[identity_id |-> 1, type |-> "password"],
                          [identity_id |-> 1, type |-> "totp"]}) }

\* One person with an engagement person, signed up long ago or this week,
\* updated long ago, some weeks ago or this week, and with no or one row in
\* each of the five activity tables, made at signup or yesterday.
LifecycleStagings ==
    { [EmptyStaging EXCEPT
          !.chemlink_persons = {[Person(1) EXCEPT !.created_at = c[1][1],
                                                  !.updated_at = c[1][2]]},
          !.engagement_persons = {[id |-> 1, external_id |-> 1]},
          !.engagement_posts = {StagedActivity(1, 1, d) : d \in c[2]},
          !.engagement_comments = {StagedActivity(1, 1, d) : d \in c[3]},
          !.chemlink_query_votes = {StagedActivity(1, 1, d) : d \in c[4]},
          !.chemlink_collections = {StagedActivity(1, 1, d) : d \in c[5]},
          !.chemlink_view_access = {StagedActivity(1, 1, d) : d \in c[6]}] :
        c \in {x \in {<<0, 0>>, <<0, Now - 35>>, <<0, Now - 5>>, <<Now - 5, Now - 5>>}
                     \X {{}, {0}, {Now - 5}, {Now - 1}} \X {{}, {0}, {Now - 5}, {Now - 1}}
                     \X {{}, {0}, {Now - 5}, {Now - 1}} \X {{}, {0}, {Now - 5}, {Now - 1}}
                     \X {{}, {0}, {Now - 5}, {Now - 1}} :
                 \A k \in 2..6 : \A d \in x[k] : d \in {x[1][1], Now - 1}} }

\* What an earlier run left in the core tables: the row, the event and the
\* cohort of a person who has since been removed from the source.
EarlierStaging ==
    [EmptyStaging EXCEPT
        !.chemlink_persons = {[Person(0) EXCEPT !.created_at = FirstDayOf(-1),
                                                !.updated_at = FirstDayOf(-1)]},
        !.chemlink_query_votes = {StagedActivity(0, 0, FirstDayOf(-1))}]

EarlierCore ==
    LET users == CHOOSE rows \in UnifiedUsers_DistinctOn(EarlierStaging, FirstDayOf(0) - 1) : TRUE
    IN [unified_users |-> users,
        user_activity_events |->
            UNION {EventsOfType(EarlierStaging, users, ActivityTypes[k]) :
                      k \in 1..Len(ActivityTypes)},
        user_cohorts |-> UserCohorts(users).rows]

InitTransformData ==
    /\ staging \in ProfileStagings \cup JoinStagings \cup LifecycleStagings
    /\ WarehouseRun("transform")
    /\ EventsIdle
    /\ current_date = Now
    /\ analytics = EarlierCore
    /\ sql_pc = "unified_users"

NextTransformData ==
    \/ TransformUnifiedUsers
    \/ TransformUserActivityEvents
    \/ TransformUserCohorts

SpecTransformData == InitTransformData /\ [][NextTransformData]_vars

\* ================================================================
\* Claims about the rates of the aggregates
\* ================================================================
\* C21: every retention rate written to aggregates.monthly_metrics is a
\* number from 0 to 100 per cent, never NULL.
C21_RetentionRateIsPercentage ==
    sql_pc \in {"post_metrics", "funnel_metrics", "done"} =>
        \A r \in analytics["monthly_metrics"] :
            /\ ~r.retention_rate.null
            /\ r.retention_rate.v \in 0..10000

\* C22: no aggregate step fails with a division by zero, and a ratio whose
\* denominator is zero is written as 0.
C22_ZeroDenominatorYieldsZero ==
    /\ \A i \in 1..Len(errors) : errors[i] # "funnel_metrics: division by zero"
    /\ sql_pc \in {"funnel_metrics", "done"} =>
          \A r \in analytics["post_metrics"] :
              /\ r.unique_posters = 0 => r.avg_posts_per_poster = Num(0)
              /\ r.posts_created = 0 =>
                    /\ r.avg_comments_per_post = Num(0)
                    /\ r.engagement_rate_comments_pct = Num(0)

\* ================================================================
\* Claims about the rows of core.unified_users
\* ================================================================
\* The unified-users transform of the run has succeeded.
UnifiedUsersWritten == "unified_users" \in truncated /\ "unified_users" \notin Range(errors)

PersonOf(u) == CHOOSE cp \in staging.chemlink_persons : cp.id = u.chemlink_id

\* C23: after a successful unified-users transform core.unified_users holds
\* exactly one row for every chemlink person in staging that is not
\* soft-deleted and no other row, however many engagement persons, identities
\* and credentials match the person; the engagement person and the identity of
\* a row are ones that match its person, and NULL when none matches.
C23_OneRowPerPerson ==
    UnifiedUsersWritten =>
        LET users == analytics["unified_users"]
            ids == {cp.id : cp \in {x \in staging.chemlink_persons : ~x.deleted}}
        IN /\ {u.chemlink_id : u \in users} = ids
           /\ Cardinality(users) = Cardinality(ids)
           /\ \A u \in users :
                 LET eps == {e.id : e \in {x \in staging.engagement_persons :
                                             x.external_id = u.chemlink_id}}
                 IN /\ eps = {} => u.engagement_person_id = Null
                    /\ eps # {} => /\ ~u.engagement_person_id.null
                                   /\ u.engagement_person_id.v \in eps
                    /\ (PersonOf(u).kratos_id.null \/ staging.kratos_identities = {})
                          => u.kratos_identity_id = Null /\ u.credential_type = NullText

\* C23 witness: person 1 matches two engagement persons and an identity with
\* two credentials, person 2 matches no engagement person; the transform wrote
\* one row for each, that of person 2 with a NULL engagement person.
C23_Witness ==
    /\ UnifiedUsersWritten
    /\ Cardinality({e \in staging.engagement_persons : e.external_id = 1}) = 2
    /\ Cardinality(staging.kratos_identity_credentials) = 2
    /\ \E u \in analytics["unified_users"] : u.chemlink_id = 1 /\ ~u.credential_type.null
    /\ \E u \in analytics["unified_users"] : u.chemlink_id = 2 /\ u.engagement_person_id = Null
    /\ Cardinality(analytics["unified_users"]) = 2

\* The rule table of the profile completion score: the weight of each rule
\* and whether person cp satisfies it.
RuleTable(cp) ==
    << <<10, ~cp.first_name.null /\ cp.first_name.v >= 1>>,
       <<10, ~cp.last_name.null /\ cp.last_name.v >= 1>>,
       <<10, ~cp.email.null>>,
       <<15, ~cp.headline_description.null /\ cp.headline_description.v >= 11>>,
       <<10, ~cp.linked_in_url.null>>,
       <<20, \E e \in staging.chemlink_experiences : e.person = cp.id /\ ~e.deleted>>,
       <<15, \E e \in staging.chemlink_education : e.person = cp.id /\ ~e.deleted>>,
       <<10, ~cp.location_id.null>> >>

RECURSIVE WeightOfSatisfied(_, _)
WeightOfSatisfied(rules, k) ==
    IF k > Len(rules) THEN 0
    ELSE (IF rules[k][2] THEN rules[k][1] ELSE 0) + WeightOfSatisfied(rules, k + 1)

\* C24: the profile completion score of every unified user is the sum of the
\* weights of the rules its person satisfies, is from 0 to 100, and is 100
\* exactly when the person satisfies every rule.
C24_ScoreIsWeightedSum ==
    UnifiedUsersWritten =>
        \A u \in analytics["unified_users"] :
            LET rules == RuleTable(PersonOf(u)) IN
            /\ u.profile_completion_score = WeightOfSatisfied(rules, 1)
            /\ u.profile_completion_score \in 0..100
            /\ u.profile_completion_score = 100 <=> \A k \in 1..Len(rules) : rules[k][2]

\* C24 witness: a person with an empty first name, a headline of 10 characters
\* and everything else has score 75.
C24_Witness ==
    /\ UnifiedUsersWritten
    /\ \E u \in analytics["unified_users"] :
          /\ PersonOf(u).first_name = Num(0)
          /\ PersonOf(u).headline_description = Num(10)
          /\ u.profile_completion_score = 75

\* The person of user u has a row in one of the five activity tables.
AnyActivity(u) ==
    \/ \E t \in {"engagement_posts", "engagement_comments"} :
          \E r \in staging[t] : ~u.engagement_person_id.null /\ r.person = u.engagement_person_id.v
    \/ \E t \in {"chemlink_query_votes", "chemlink_collections", "chemlink_view_access"} :
          \E r \in staging[t] : r.person = u.chemlink_id

\* C27: the activation status of a user is true exactly when the user has an
\* activity in one of the five categories post, comment, vote, collection and
\* view, and a user who is neither CHURNED nor DORMANT is ENGAGED exactly when
\* the user has such an activity.
C27_LifecycleFromFiveCategories ==
    UnifiedUsersWritten =>
        \A u \in analytics["unified_users"] :
            /\ u.activation_status <=> AnyActivity(u)
            /\ u.user_lifecycle_stage \notin {"CHURNED", "DORMANT"} =>
                  (u.user_lifecycle_stage = "ENGAGED" <=> AnyActivity(u))

\* ================================================================
\* A run of either command on the rows of its tables
\* ================================================================
InitWarehouse == InitTransformData \/ InitAggregateData

NextWarehouse == NextTransformData \/ NextAggregateData

SpecWarehouse == InitWarehouse /\ [][NextWarehouse]_vars

\* The rows of a table that the run has written: all of them once the run has
\* truncated the table, none before.
WrittenInRun(table) == IF table \in truncated THEN analytics[table] ELSE {}

\* The run has not recomputed the table: it is as the earlier run left it.
NotRecomputed(table, earlier) == table \notin truncated /\ analytics[table] = earlier[table]

\* C29: at any point of a transform run, the events and the cohorts in the
\* core tables are those the earlier run left, not recomputed, or come from
\* unified users written in this run only; when the insert of the unified users
\* failed the events and cohorts are empty or not recomputed. The same holds in
\* an aggregate run for the monthly metrics and the daily metrics.
C29_NoStaleMixing ==
    /\ cmd = "transform" =>
          /\ \/ NotRecomputed("user_activity_events", EarlierCore)
             \/ \A e \in analytics["user_activity_events"] :
                   \E u \in WrittenInRun("unified_users") : u.chemlink_id = e.user_id
          /\ \/ NotRecomputed("user_cohorts", EarlierCore)
             \/ \A c \in analytics["user_cohorts"] :
                   \E u \in WrittenInRun("unified_users") : MonthOf(u.signup_date) = c.cohort_month
          /\ "unified_users" \in Range(errors) =>
                \A t \in {"user_activity_events", "user_cohorts"} :
                    NotRecomputed(t, EarlierCore) \/ analytics[t] = {}
    /\ cmd = "aggregate" =>
          /\ \/ NotRecomputed("monthly_metrics", EarlierAnalytics)
             \/ \A m \in analytics["monthly_metrics"] :
                   \E r \in WrittenInRun("daily_metrics") : MonthOf(r.metric_date) = m.metric_month
          /\ "daily_metrics" \in Range(errors) =>
                NotRecomputed("monthly_metrics", EarlierAnalytics)
                  \/ analytics["monthly_metrics"] = {}

\* C29 witness: a transform run whose insert of the unified users failed has
\* ended with the events and the cohorts of the earlier run replaced by none.
C29_Witness ==
    /\ cmd = "transform"
    /\ sql_pc = "done"
    /\ "unified_users" \in Range(errors)
    /\ staging.chemlink_query_votes # {}
    /\ EarlierCore["user_activity_events"] # {}
    /\ EarlierCore["user_cohorts"] # {}
    /\ analytics["unified_users"] = {}
    /\ analytics["user_activity_events"] = {}
    /\ analytics["user_cohorts"] = {}

\* ================================================================
\* transform.py: the user-to-user relationships built from the graph
\* ================================================================
MaxGraphPersons == 3     \* Person nodes of the graph, numbered in the order of their ids
MaxGraphUsers == 2       \* unified users the Person nodes resolve to by e-mail

GraphEmails == [u \in 1..MaxGraphUsers |-> <<"a@example.com", "b@example.com">>[u]]

GraphCompanies == {"company-1", "company-2"}

GraphSchools == {"school-1"}

TargetNodeType(t) == IF t \in GraphCompanies THEN "Company" ELSE "School"

\* The two statements: the type they write, the node type two users share, the
\* relationship types of rel1, the staging table of the shared nodes and the
\* name the statement is logged under.
RelationshipStatements ==
    <<[type |-> "WORKED_TOGETHER", target |-> "Company",
       rel1 |-> {"EXPERIENCED_IN", "WORKED_AT"}, nodes |-> "neo4j_companies",
       name |-> "user relationships (worked together)"],
      [type |-> "STUDIED_TOGETHER", target |-> "School",
       rel1 |-> {"EDUCATED_IN", "STUDIED_AT"}, nodes |-> "neo4j_schools",
       name |-> "user relationships (studied together)"]>>

\* The rows of the FROM clause after its inner joins and its WHERE: one for
\* every pair of relationships to the same node whose sources are Person
\* nodes, the first with the smaller node id, resolved by e-mail to two
\* different unified users. The shared node is NULL when its staging table does
\* not hold it (LEFT JOIN); the other LEFT JOINs add no column followed here.
RelationshipJoin(st, users, stmt) ==
    {[user_id |-> u1.chemlink_id, related_user_id |-> u2.chemlink_id,
      node |-> IF rel1.target_node_id \in st[stmt.nodes]
                  THEN Text(rel1.target_node_id) ELSE NullText] :
        <<rel1, rel2, p1, p2, u1, u2>> \in
           {x \in st.neo4j_relationships \X st.neo4j_relationships
                    \X st.neo4j_persons \X st.neo4j_persons \X users \X users :
               /\ x[1].target_node_id = x[2].target_node_id
               /\ x[1].target_node_type = stmt.target
               /\ x[2].target_node_type = stmt.target
               /\ x[1].source_node_id < x[2].source_node_id
               /\ x[1].source_node_id = x[3].person_id
               /\ x[2].source_node_id = x[4].person_id
               /\ x[3].email = x[5].email
               /\ x[4].email = x[6].email
               /\ x[1].relationship_type \in stmt.rel1
               /\ x[5].chemlink_id # x[6].chemlink_id}}

\* GROUP BY u1.chemlink_id, u2.chemlink_id with COUNT(DISTINCT node) and
\* HAVING COUNT(DISTINCT node) > 0.
UserRelationships(st, users, stmt) ==
    LET joined == RelationshipJoin(st, users, stmt)
        Strength(a, b) ==
            Cardinality({j.node.v : j \in {k \in joined : /\ k.user_id = a
                                                           /\ k.related_user_id = b
                                                           /\ ~k.node.null}})
    IN  {[user_id |-> g[1], related_user_id |-> g[2], relationship_type |-> stmt.type,
          relationship_strength |-> Strength(g[1], g[2])] :
            g \in {h \in {<<j.user_id, j.related_user_id>> : j \in joined} :
                      Strength(h[1], h[2]) > 0}}

\* transform_neo4j_data on a warehouse whose graph tables exist: the TRUNCATE
\* of the relationship tables is committed, then each statement inserts its
\* rows or fails, is rolled back and logged. A TRUNCATE that raises ends the
\* run. The network tables written after the relationships are not followed.
TransformNeo4jData ==
    /\ sql_pc = "neo4j_data"
    /\ \/ \E failed \in SUBSET (1..Len(RelationshipStatements)) :
            /\ Cardinality(failed) <= faults
            /\ faults' = faults - Cardinality(failed)
            /\ analytics' =
                  [analytics EXCEPT !["user_relationships"] =
                      UNION {UserRelationships(staging, analytics["unified_users"],
                                               RelationshipStatements[k]) :
                                k \in (1..Len(RelationshipStatements)) \ failed}]
            /\ errors' = errors \o
                  SelectSeq([k \in 1..Len(RelationshipStatements) |->
                                 RelationshipStatements[k].name],
                            LAMBDA n : \E k \in failed : n = RelationshipStatements[k].name)
            /\ truncated' = truncated \cup {"user_relationships"}
            /\ sql_pc' = "done"
            /\ UNCHANGED raised
       \/ /\ faults > 0
          /\ faults' = faults - 1
          /\ raised' = "Exception"
          /\ sql_pc' = "done"
          /\ UNCHANGED <<analytics, truncated, errors>>
    /\ HandlerFrame

\* ---- the graph a run reads
\* Person nodes 1..n, each with the e-mail of one unified user.
GraphPersons ==
    UNION {{ {[person_id |-> i, email |-> GraphEmails[f[i]]] : i \in 1..n} :
               f \in [1..n -> 1..MaxGraphUsers]} : n \in 1..MaxGraphPersons}

\* Relationships from Person nodes to companies and schools.
GraphRelationships(persons) ==
    SUBSET {[source_node_id |-> p.person_id, source_node_type |-> "Person",
             relationship_type |-> IF t \in GraphCompanies THEN "WORKED_AT" ELSE "STUDIED_AT",
             target_node_id |-> t, target_node_type |-> TargetNodeType(t)] :
               p \in persons, t \in GraphCompanies \cup GraphSchools}

GraphStagings ==
    UNION {{[neo4j_persons |-> persons, neo4j_relationships |-> rels,
             neo4j_companies |-> companies, neo4j_schools |-> GraphSchools] :
               rels \in GraphRelationships(persons),
               companies \in {GraphCompanies, {"company-1"}}} :
           persons \in GraphPersons}

\* The unified users of the run, by the columns the statements read.
GraphUsers == {[chemlink_id |-> u, email |-> GraphEmails[u]] : u \in 1..MaxGraphUsers}

InitGraphData ==
    /\ staging \in GraphStagings
    /\ WarehouseRun("transform")
    /\ EventsIdle
    /\ current_date = Now
    /\ analytics = [unified_users |-> GraphUsers, user_relationships |-> {}]
    /\ sql_pc = "neo4j_data"

NextGraphData == TransformNeo4jData

SpecGraphData == InitGraphData /\ [][NextGraphData]_vars

\* ================================================================
\* Claims about the user-to-user relationships
\* ================================================================
\* The nodes of a type that a Person node of each of the two users has a
\* relationship to.
SharedTargets(a, b, stmt) ==
    {t \in GraphCompanies \cup GraphSchools :
        /\ TargetNodeType(t) = stmt.target
        /\ \A u \in {a, b} :
              \E p \in staging.neo4j_persons, r \in staging.neo4j_relationships :
                  /\ p.email = GraphEmails[u]
                  /\ r.source_node_id = p.person_id
                  /\ r.target_node_id = t}

\* C28: after the relationship statements have run without an error, every
\* row of core.user_relationships has the smaller user id in user_id, no row
\* has its pair reversed in another row of the same type, and its strength is
\* the number of distinct nodes the two users share.
C28_CanonicalPairs ==
    (sql_pc = "done" /\ "user_relationships" \in truncated /\ errors = <<>>) =>
        \A r \in analytics["user_relationships"] :
            /\ r.user_id < r.related_user_id
            /\ ~\E q \in analytics["user_relationships"] :
                    /\ q.relationship_type = r.relationship_type
                    /\ q.user_id = r.related_user_id
                    /\ q.related_user_id = r.user_id
            /\ \E k \in 1..Len(RelationshipStatements) :
                    /\ RelationshipStatements[k].type = r.relationship_type
                    /\ r.relationship_strength =
                          Cardinality(SharedTargets(r.user_id, r.related_user_id,
                                                    RelationshipStatements[k]))

====
